---------------------------- MODULE Spec2Model ----------------------------
(***************************************************************************)
(* Model of the GPU particle migration kernels of mpcd::ParticleData       *)
(* (mpcd/ParticleData.cu): mark_removed_particles, partition_particles,    *)
(* remove_particles and add_particles.                                     *)
(*                                                                         *)
(* Device arrays are functions over 0..Cap-1.  A Scalar4 (position or      *)
(* velocity) is one opaque value; slots the program never wrote hold the   *)
(* value Poison.  A kernel launch is one step: the effect of all threads   *)
(* of its grid, each thread writing the slots its code writes.  Threads    *)
(* whose index lies beyond the allocation are left out: their guard sends  *)
(* them back before they touch memory.                                     *)
(*                                                                         *)
(* Further down: the host side of the distance-constraint solver           *)
(* (ForceDistanceConstraintGPU::computeConstraintForces), the migration    *)
(* kernels seen thread by thread, and the constraint kernels               *)
(* (ForceDistanceConstraintGPU.cu) seen thread by thread.  Each has a      *)
(* specification of its own: SpecSolve and SpecStatus, SpecThreads,        *)
(* SpecFill.  Then the empty-group check of the NPT integration method    *)
(* (TwoStepNPTMTKGPU), under SpecNPT, and the migration followed by a run  *)
(* of appends, under SpecAppends.  SpecLifetime follows the solver object  *)
(* up to its destructor, SpecLu the composition of the permutations of    *)
(* one factorization.                                                      *)
(***************************************************************************)
EXTENDS Integers, Naturals, FiniteSets, Sequences, TLC

\* ------------------------------------------------------------------ bounds
MaxN == 3       \* largest local particle count before a migration
MaxAdd == 2     \* largest inbound buffer
FlagBits == 2   \* number of communication-flag bits in use
MaxGroup == 2   \* largest integration group, and particles of the domain
MaxCalls == 3   \* integration half steps followed
MaxLambda == 2  \* largest multiplier tried on a single constraint
MaxPerm == 3    \* largest matrix whose permutations are composed

\* ------------------------------------------------------- program constants
BlockSize == 512            \* block_size of remove_particles / add_particles

Cap == MaxN + MaxAdd        \* allocated length of every device array
Idx == 0 .. (Cap - 1)
FlagVals == 0 .. (2^FlagBits - 1)
Poison == 99                \* content of a slot nothing has written
BlockSizes == {1, BlockSize} \* block sizes handed to mark_removed_particles

VARIABLES
    N,                  \* number of local particles
    d_pos, d_vel, d_tag, d_comm_flags,                  \* local arrays
    d_pos_alt, d_vel_alt, d_tag_alt, d_comm_flags_alt,  \* alternate arrays
    d_tmp_flag, d_tmp_id,   \* output of mark_removed_particles
    d_scan, d_num_select,   \* output of partition_particles
    d_out,                  \* outbound packed buffer (pdata_element)
    d_in, num_add_ptls,     \* inbound packed buffer and its length
    mask,                   \* mask handed to mark_removed_particles
    mask_add,               \* mask handed to add_particles
    n_remove,               \* length of the outbound buffer after a remove
    pc,                     \* position of the host in the migration
    prev                    \* the device state before the last step

\* The constraint solver (ForceDistanceConstraintGPU) and the threads of one
\* kernel launch have state of their own, described where they are modelled.
VARIABLES
    cons,                           \* the constraints the system holds
    m_constraints_dirty,            \* topology changed since the last solve
    m_nnz_tot,                      \* cached nonzero count of the matrix
    m_cusolver_rf_initialized,      \* the refactorization handle exists
    call,                           \* what the last solve did
    edits                           \* changes of cons since that solve

VARIABLES
    thr                             \* a launch seen thread by thread

VARIABLES
    sys,                            \* constraint table, particles, box
    d_matrix, d_vec,                \* dense matrix and right-hand side
    d_lagrange, d_force,            \* multipliers and constraint forces
    ran,                            \* threads of the launch that have run
    writers,                        \* which thread wrote which location
    kpc                             \* position in the constraint kernels

VARIABLES
    npt                             \* the NPT integration method

VARIABLES
    lu                              \* the permutations of one factorization

solveVars == <<cons, m_constraints_dirty, m_nnz_tot, m_cusolver_rf_initialized,
               call, edits>>
thrVars == <<thr>>
nptVars == <<npt>>
luVars == <<lu>>
fillVars == <<sys, d_matrix, d_vec, d_lagrange, d_force, ran, writers, kpc>>

dev == <<N, d_pos, d_vel, d_tag, d_comm_flags,
         d_pos_alt, d_vel_alt, d_tag_alt, d_comm_flags_alt,
         d_tmp_flag, d_tmp_id, d_scan, d_num_select, d_out, d_in, num_add_ptls>>
migVars == <<dev, mask, mask_add, n_remove, pc, prev>>
vars == <<migVars, solveVars, thrVars, fillVars, nptVars, luVars>>

Snap == [N |-> N, d_pos |-> d_pos, d_vel |-> d_vel, d_tag |-> d_tag,
         d_comm_flags |-> d_comm_flags,
         d_pos_alt |-> d_pos_alt, d_vel_alt |-> d_vel_alt,
         d_tag_alt |-> d_tag_alt, d_comm_flags_alt |-> d_comm_flags_alt,
         d_tmp_flag |-> d_tmp_flag, d_tmp_id |-> d_tmp_id,
         d_scan |-> d_scan, d_num_select |-> d_num_select,
         d_out |-> d_out, d_in |-> d_in, num_add_ptls |-> num_add_ptls]

\* ----------------------------------------------------------- bit operations
\* a & b on unsigned integers
RECURSIVE BitAnd(_, _)
BitAnd(a, b) ==
    IF a = 0 \/ b = 0 THEN 0
    ELSE (a % 2) * (b % 2) + 2 * BitAnd(a \div 2, b \div 2)

\* a & ~m on unsigned integers: the bits of a that are not bits of m
RECURSIVE BitAndNot(_, _)
BitAndNot(a, m) ==
    IF a = 0 THEN 0
    ELSE (a % 2) * (1 - (m % 2)) + 2 * BitAndNot(a \div 2, m \div 2)

\* ------------------------------------------------------------ kernel grids
\* threads of a launch <<<n / bs + 1, bs>>>
GridThreads(n, bs) == 0 .. ((n \div bs + 1) * bs - 1)

\* "if (idx >= N) return;" : the threads that go on past the guard
Guard_off(idx, n) == ~(idx > n)
Guard(idx, n) == ~(idx >= n)

\* a load from a device array; an address outside the allocation yields Poison
Load(arr, i) == IF i \in DOMAIN arr THEN arr[i] ELSE Poison

\* a packed pdata_element
Element(p, v, t, f) == [pos |-> p, vel |-> v, tag |-> t, comm_flag |-> f]
PoisonElement == Element(Poison, Poison, Poison, Poison)

\* ------------------------------------------------------------ particle data
PosOf(t) == 10 + t      \* the position of the particle with tag t
VelOf(t) == 20 + t      \* the velocity of the particle with tag t

\* --------------------------------------------------- mark_removed_particles
\* d_tmp_flag[idx] = (d_comm_flags[idx] & mask) ? 0 : 1
KeepFlag_inverted(flag, m) == IF BitAnd(flag, m) # 0 THEN 1 ELSE 0
KeepFlag_anybit(flag, m) == IF flag # 0 THEN 0 ELSE 1
KeepFlag(flag, m) == IF BitAnd(flag, m) # 0 THEN 0 ELSE 1

\* the kernel: thread idx writes d_tmp_id[idx] and d_tmp_flag[idx]
kernel_mark_removed_particles(m, n, bs) ==
    /\ d_tmp_id' = [i \in Idx |->
            IF i \in GridThreads(n, bs) /\ Guard(i, n) THEN i ELSE d_tmp_id[i]]
    /\ d_tmp_flag' = [i \in Idx |->
            IF i \in GridThreads(n, bs) /\ Guard(i, n)
            THEN KeepFlag(d_comm_flags[i], m) ELSE d_tmp_flag[i]]

\* the driver: run_block_size = min(block_size, max_block_size), one launch
mark_removed_particles(m, n, block_size) ==
    kernel_mark_removed_particles(m, n, block_size)

\* ------------------------------------------------------ partition_particles
\* cub::DevicePartition::Flagged(d_in, d_flags, d_out, d_num_selected, n):
\* the items whose flag is nonzero are compacted to the front of d_out in
\* their order; the items whose flag is zero are compacted into the rear of
\* d_out in reverse order; d_num_selected is the number of selected items.
SelectedBefore(flags, i) == Cardinality({j \in 0 .. (i - 1) : flags[j] # 0})
RejectedBefore(flags, i) == Cardinality({j \in 0 .. (i - 1) : flags[j] = 0})

ScatterSlot_shifted(flags, i, n) ==
    IF flags[i] # 0 THEN SelectedBefore(flags, i)
    ELSE n - RejectedBefore(flags, i)
ScatterSlot(flags, i, n) ==
    IF flags[i] # 0 THEN SelectedBefore(flags, i)
    ELSE n - RejectedBefore(flags, i) - 1

NumSelected_short(flags, n) == SelectedBefore(flags, n - 1)
NumSelected(flags, n) == SelectedBefore(flags, n)

partition_particles(d_ids, d_flags, n) ==
    /\ d_scan' = [s \in Idx |->
            IF \E i \in 0 .. (n - 1) : ScatterSlot(d_flags, i, n) = s
            THEN d_ids[CHOOSE i \in 0 .. (n - 1) : ScatterSlot(d_flags, i, n) = s]
            ELSE d_scan[s]]
    /\ d_num_select' = NumSelected(d_flags, n)

\* --------------------------------------------------------- remove_particles
\* "if (idx >= n_keep)": the thread packs its particle into d_out
ToOutbound_strict(idx, n_keep) == idx > n_keep
ToOutbound_never(idx, n_keep) == FALSE
ToOutbound(idx, n_keep) == idx >= n_keep

\* "d_out[idx - n_keep] = p"
OutSlot_unshifted(idx, n_keep) == idx
OutSlot_first(idx, n_keep) == 0
OutSlot(idx, n_keep) == idx - n_keep

\* "pid = d_scan[idx]": the particle thread idx moves
SourceIndex_direct(scan, idx) == idx
SourceIndex(scan, idx) == Load(scan, idx)

\* the threads of the kernel that get past "if (idx >= N) return;"
RemoveThreads(n) ==
    {idx \in Idx : idx \in GridThreads(n, BlockSize) /\ Guard(idx, n)}

\* the kernel: thread idx reads particle pid = d_scan[idx] and writes it to
\* d_out[idx - n_keep] when idx >= n_keep, to the alternate arrays at idx
\* otherwise
kernel_remove_particles(n_keep, n) ==
    LET out == {idx \in RemoveThreads(n) : ToOutbound(idx, n_keep)}
        loc == RemoveThreads(n) \ out
        pid(idx) == SourceIndex(d_scan, idx)
        wr(s) == CHOOSE idx \in out : OutSlot(idx, n_keep) = s
    IN  /\ d_out' = [s \in Idx |->
                IF \E idx \in out : OutSlot(idx, n_keep) = s
                THEN Element(Load(d_pos, pid(wr(s))), Load(d_vel, pid(wr(s))),
                             Load(d_tag, pid(wr(s))),
                             Load(d_comm_flags, pid(wr(s))))
                ELSE d_out[s]]
        /\ d_pos_alt' = [s \in Idx |->
                IF s \in loc THEN Load(d_pos, pid(s)) ELSE d_pos_alt[s]]
        /\ d_vel_alt' = [s \in Idx |->
                IF s \in loc THEN Load(d_vel, pid(s)) ELSE d_vel_alt[s]]
        /\ d_tag_alt' = [s \in Idx |->
                IF s \in loc THEN Load(d_tag, pid(s)) ELSE d_tag_alt[s]]
        /\ d_comm_flags_alt' = [s \in Idx |->
                IF s \in loc THEN Load(d_comm_flags, pid(s))
                ELSE d_comm_flags_alt[s]]

\* the driver: one launch; its second parameter (which the driver declares
\* under the name mask) is handed to the kernel as n_keep
remove_particles(mask_arg, n) == kernel_remove_particles(mask_arg, n)

\* ------------------------------------------------------------ add_particles
\* "p.comm_flag & ~mask"
Unmask_keep(flag, m) == BitAnd(flag, m)
Unmask(flag, m) == BitAndNot(flag, m)

\* "add_idx = old_nparticles + idx"
AddIndex_overwrite(old_nparticles, idx) == idx
AddIndex_shifted(old_nparticles, idx) == old_nparticles + idx + 1
AddIndex(old_nparticles, idx) == old_nparticles + idx

\* the threads of the kernel that get past "if (idx >= num_add_ptls) return;"
AddThreads(m) ==
    {idx \in Idx : idx \in GridThreads(m, BlockSize) /\ Guard(idx, m)}

\* the kernel: thread idx appends d_in[idx] at old_nparticles + idx
kernel_add_particles(old_nparticles, num_add, m) ==
    LET wr(a) == CHOOSE idx \in AddThreads(num_add) :
                    AddIndex(old_nparticles, idx) = a
        hit(a) == \E idx \in AddThreads(num_add) :
                    AddIndex(old_nparticles, idx) = a
    IN  /\ d_pos' = [a \in Idx |->
                IF hit(a) THEN Load(d_in, wr(a)).pos ELSE d_pos[a]]
        /\ d_vel' = [a \in Idx |->
                IF hit(a) THEN Load(d_in, wr(a)).vel ELSE d_vel[a]]
        /\ d_tag' = [a \in Idx |->
                IF hit(a) THEN Load(d_in, wr(a)).tag ELSE d_tag[a]]
        /\ d_comm_flags' = [a \in Idx |->
                IF hit(a) THEN Unmask(Load(d_in, wr(a)).comm_flag, m)
                ELSE d_comm_flags[a]]

add_particles(old_nparticles, num_add, m) ==
    kernel_add_particles(old_nparticles, num_add, m)

\* ------------------------------------------------------------ host sequence
\* The host code that launches the kernels (mpcd::ParticleData) follows the
\* migration design: classify, partition, remove given the permutation and
\* the selected count K, make the alternate arrays the local arrays, receive,
\* append.  The count K reaches the kernel through the second parameter of
\* the remove_particles driver.
StepMark(m, bs) ==
    /\ pc = "start"
    /\ mark_removed_particles(m, N, bs)
    /\ mask' = m
    /\ pc' = "marked"
    /\ prev' = Snap
    /\ UNCHANGED <<solveVars, thrVars, fillVars, nptVars, luVars>>
    /\ UNCHANGED <<N, d_pos, d_vel, d_tag, d_comm_flags,
                   d_pos_alt, d_vel_alt, d_tag_alt, d_comm_flags_alt,
                   d_scan, d_num_select, d_out, d_in, num_add_ptls,
                   mask_add, n_remove>>

StepPartition ==
    /\ pc = "marked"
    /\ partition_particles(d_tmp_id, d_tmp_flag, N)
    /\ pc' = "partitioned"
    /\ prev' = Snap
    /\ UNCHANGED <<solveVars, thrVars, fillVars, nptVars, luVars>>
    /\ UNCHANGED <<N, d_pos, d_vel, d_tag, d_comm_flags,
                   d_pos_alt, d_vel_alt, d_tag_alt, d_comm_flags_alt,
                   d_tmp_flag, d_tmp_id, d_out, d_in, num_add_ptls,
                   mask, mask_add, n_remove>>

StepRemove ==
    /\ pc = "partitioned"
    /\ remove_particles(d_num_select, N)
    /\ n_remove' = N - d_num_select
    /\ pc' = "removed"
    /\ prev' = Snap
    /\ UNCHANGED <<solveVars, thrVars, fillVars, nptVars, luVars>>
    /\ UNCHANGED <<N, d_pos, d_vel, d_tag, d_comm_flags,
                   d_tmp_flag, d_tmp_id, d_scan, d_num_select,
                   d_in, num_add_ptls, mask, mask_add>>

\* the alternate arrays become the local arrays; the local count becomes K
StepSwap ==
    /\ pc = "removed"
    /\ N' = d_num_select
    /\ d_pos' = d_pos_alt /\ d_pos_alt' = d_pos
    /\ d_vel' = d_vel_alt /\ d_vel_alt' = d_vel
    /\ d_tag' = d_tag_alt /\ d_tag_alt' = d_tag
    /\ d_comm_flags' = d_comm_flags_alt /\ d_comm_flags_alt' = d_comm_flags
    /\ pc' = "swapped"
    /\ prev' = Snap
    /\ UNCHANGED <<solveVars, thrVars, fillVars, nptVars, luVars>>
    /\ UNCHANGED <<d_tmp_flag, d_tmp_id, d_scan, d_num_select,
                   d_out, d_in, num_add_ptls, mask, mask_add, n_remove>>

\* an inbound buffer: a run of the elements just sent out ...
EchoBuffer(a, m) ==
    [j \in Idx |-> IF j < m THEN d_out[a + j] ELSE PoisonElement]
\* ... or particles of other domains, with tags this domain does not hold
FreshBuffer(f, m) ==
    [j \in Idx |-> IF j < m
                   THEN Element(PosOf(MaxN + 1 + j), VelOf(MaxN + 1 + j),
                                MaxN + 1 + j, (f + j) % (2^FlagBits))
                   ELSE PoisonElement]

StepReceive ==
    /\ pc = "swapped"
    /\ \E m \in 0 .. MaxAdd :
          /\ N + m <= Cap         \* the arrays are sized before the append
          /\ num_add_ptls' = m
          /\ \/ \E a \in 0 .. n_remove : a + m <= n_remove /\ d_in' = EchoBuffer(a, m)
             \/ \E f \in {0, 2^FlagBits - 1} : d_in' = FreshBuffer(f, m)
    /\ pc' = "received"
    /\ prev' = Snap
    /\ UNCHANGED <<solveVars, thrVars, fillVars, nptVars, luVars>>
    /\ UNCHANGED <<N, d_pos, d_vel, d_tag, d_comm_flags,
                   d_pos_alt, d_vel_alt, d_tag_alt, d_comm_flags_alt,
                   d_tmp_flag, d_tmp_id, d_scan, d_num_select, d_out,
                   mask, mask_add, n_remove>>

StepAdd(m) ==
    /\ pc = "received"
    /\ add_particles(N, num_add_ptls, m)
    /\ N' = N + num_add_ptls
    /\ mask_add' = m
    /\ pc' = "added"
    /\ prev' = Snap
    /\ UNCHANGED <<solveVars, thrVars, fillVars, nptVars, luVars>>
    /\ UNCHANGED <<d_pos_alt, d_vel_alt, d_tag_alt, d_comm_flags_alt,
                   d_tmp_flag, d_tmp_id, d_scan, d_num_select, d_out,
                   d_in, num_add_ptls, mask, n_remove>>

\* ----------------------------------------------------------------- at rest
\* Each subsystem is studied by a specification of its own; there the other
\* subsystems stay in the state below.
NoEdit == <<"none", -1>>
NoCall == [path |-> "none", trace |-> <<>>, outcome |-> "none",
           message |-> "none", by_count |-> FALSE, dirty |-> FALSE,
           count_differs |-> FALSE, nnz_new |-> 0, edits |-> NoEdit,
           first |-> FALSE, prev_path |-> "none",
           singularity |-> -1, failed |-> "none",
           factored |-> FALSE,
           same_cells |-> TRUE, analyzed |-> {},
           m_lagrange |-> [n |-> 0, stored |-> FALSE],
           m_force |-> [stored |-> FALSE],
           rf_creates |-> 0]
SolveIdle ==
    /\ cons = {}
    /\ m_constraints_dirty = TRUE
    /\ m_nnz_tot = 0
    /\ m_cusolver_rf_initialized = FALSE
    /\ call = NoCall
    /\ edits = NoEdit
NoLaunch == [kernel |-> "none", n_keep |-> 0, old |-> 0, num |-> 0, mask |-> 0,
             at |-> <<>>, regs |-> <<>>, reads |-> {}, writes |-> {}]
ThrIdle == thr = NoLaunch
FillIdle ==
    /\ sys = [shape |-> "none"]
    /\ d_matrix = <<>> /\ d_vec = <<>> /\ d_lagrange = <<>> /\ d_force = <<>>
    /\ ran = {} /\ writers = {}
    /\ kpc = "none"
NptIdle == npt = [method |-> "none"]
LuIdle == lu = [stage |-> "none"]

\* --------------------------------------------------------------------- Init
\* Tags are unique; the index of a tag is arbitrary.  The assignments tried
\* are 1..n in increasing and in decreasing order of the index.
TagLayouts(n) == {[i \in 0 .. (n - 1) |-> i + 1], [i \in 0 .. (n - 1) |-> n - i]}

\* The status words particles start with: no bit, one bit, another bit, all
\* bits.  The kernels treat the bits of a word independently.
StatusWords == {0, 1, 2, 2^FlagBits - 1}

PoisonArray == [i \in Idx |-> Poison]

Init ==
    /\ N \in 0 .. MaxN
    /\ \E tg \in TagLayouts(N) :
          /\ d_tag = [i \in Idx |-> IF i < N THEN tg[i] ELSE Poison]
          /\ d_pos = [i \in Idx |-> IF i < N THEN PosOf(tg[i]) ELSE Poison]
          /\ d_vel = [i \in Idx |-> IF i < N THEN VelOf(tg[i]) ELSE Poison]
    /\ \E fl \in [0 .. (N - 1) -> StatusWords] :
          d_comm_flags = [i \in Idx |-> IF i < N THEN fl[i] ELSE Poison]
    /\ d_pos_alt = PoisonArray /\ d_vel_alt = PoisonArray
    /\ d_tag_alt = PoisonArray /\ d_comm_flags_alt = PoisonArray
    /\ d_tmp_flag = PoisonArray /\ d_tmp_id = PoisonArray
    /\ d_scan = PoisonArray /\ d_num_select = Poison
    /\ d_out = [i \in Idx |-> PoisonElement]
    /\ d_in = [i \in Idx |-> PoisonElement]
    /\ num_add_ptls = 0
    /\ mask = 0
    /\ mask_add = 0
    /\ n_remove = 0
    /\ pc = "start"
    /\ prev = Snap
    /\ SolveIdle /\ ThrIdle /\ FillIdle /\ NptIdle /\ LuIdle

Next ==
    \/ \E m \in FlagVals, bs \in BlockSizes : StepMark(m, bs)
    \/ StepPartition
    \/ StepRemove
    \/ StepSwap
    \/ StepReceive
    \/ \E m \in FlagVals : StepAdd(m)

Spec == Init /\ [][Next]_vars

\* The worked example of the remove_particles documentation: five particles
\* with flags 0 1 1 0 0.
ExampleN == 5
ExampleFlags == [i \in 0 .. (ExampleN - 1) |-> IF i \in {1, 2} THEN 1 ELSE 0]

InitExample ==
    /\ N = ExampleN
    /\ \E tg \in TagLayouts(ExampleN) :
          /\ d_tag = [i \in Idx |-> IF i < N THEN tg[i] ELSE Poison]
          /\ d_pos = [i \in Idx |-> IF i < N THEN PosOf(tg[i]) ELSE Poison]
          /\ d_vel = [i \in Idx |-> IF i < N THEN VelOf(tg[i]) ELSE Poison]
    /\ d_comm_flags = [i \in Idx |-> IF i < N THEN ExampleFlags[i] ELSE Poison]
    /\ d_pos_alt = PoisonArray /\ d_vel_alt = PoisonArray
    /\ d_tag_alt = PoisonArray /\ d_comm_flags_alt = PoisonArray
    /\ d_tmp_flag = PoisonArray /\ d_tmp_id = PoisonArray
    /\ d_scan = PoisonArray /\ d_num_select = Poison
    /\ d_out = [i \in Idx |-> PoisonElement]
    /\ d_in = [i \in Idx |-> PoisonElement]
    /\ num_add_ptls = 0
    /\ mask = 0
    /\ mask_add = 0
    /\ n_remove = 0
    /\ pc = "start"
    /\ prev = Snap
    /\ SolveIdle /\ ThrIdle /\ FillIdle /\ NptIdle /\ LuIdle

SpecExample == InitExample /\ [][Next]_vars

\* =============================================================== properties
\* Vocabulary of the properties, stated without the operators of the model.
Bit(a, k) == (a \div (2^k)) % 2 = 1
HasMaskBit(status, m) == \E k \in 0 .. (FlagBits - 1) : Bit(status, k) /\ Bit(m, k)
MaskCleared(new, old, m) ==
    /\ new \in FlagVals
    /\ \A k \in 0 .. (FlagBits - 1) : Bit(new, k) <=> (Bit(old, k) /\ ~Bit(m, k))

\* the indices among 0..n-1 whose status has no bit of m / some bit of m
KeptOf(status, m, n) == {i \in 0 .. (n - 1) : ~HasMaskBit(status[i], m)}
RemovedOf(status, m, n) == {i \in 0 .. (n - 1) : HasMaskBit(status[i], m)}
\* the s-th (from 0) element of a set of indices, in increasing order
NthOf(S, s) == CHOOSE i \in S : Cardinality({j \in S : j < i}) = s

\* the particle record held at index i of the local / alternate arrays
LocalRec(i) == Element(d_pos[i], d_vel[i], d_tag[i], d_comm_flags[i])
AltRec(i) == Element(d_pos_alt[i], d_vel_alt[i], d_tag_alt[i], d_comm_flags_alt[i])
PrevLocalRec(i) == Element(prev.d_pos[i], prev.d_vel[i], prev.d_tag[i],
                           prev.d_comm_flags[i])

AltArrays == <<d_pos_alt, d_vel_alt, d_tag_alt, d_comm_flags_alt>>
PrevAltArrays == <<prev.d_pos_alt, prev.d_vel_alt, prev.d_tag_alt,
                   prev.d_comm_flags_alt>>

\* C1: after partition_particles the indices flagged keep come first in their
\* original relative order and the indices flagged remove follow, also in
\* their original relative order (a stable partition of 0..N-1).
C1_StablePartition ==
    pc = "partitioned" =>
        LET kept == {i \in 0 .. (N - 1) : d_tmp_flag[i] = 1}
            removed == {i \in 0 .. (N - 1) : d_tmp_flag[i] = 0}
            K == Cardinality(kept)
        IN  \A s \in 0 .. (N - 1) :
                d_scan[s] = IF s < K THEN NthOf(kept, s) ELSE NthOf(removed, s - K)

\* C2: after classify, partition and remove, K is the number of particles
\* whose status has no mask bit, slot s < K of the alternate arrays holds the
\* unchanged record of the s-th kept particle, and the local count becomes K.
C2_CompactionComplete ==
    /\ pc = "removed" =>
          LET kept == KeptOf(d_comm_flags, mask, N)
          IN  /\ d_num_select = Cardinality(kept)
              /\ \A s \in 0 .. (d_num_select - 1) : AltRec(s) = LocalRec(NthOf(kept, s))
    /\ pc = "swapped" =>
          N = Cardinality(KeptOf(prev.d_comm_flags, mask, prev.N))

C2_Witness ==
    /\ pc = "removed"
    /\ N = MaxN
    /\ d_num_select = 2
    /\ HasMaskBit(d_comm_flags[0], mask)
    /\ \E i \in KeptOf(d_comm_flags, mask, N) : d_comm_flags[i] # 0

\* C3: remove_particles splits the permutation at K: the particle of every
\* slot s >= K goes, with its unmodified status, to the outbound buffer at
\* s - K, and no particle of a slot below K is written to the outbound buffer.
C3_OutboundSplit ==
    pc = "removed" =>
        LET K == d_num_select
        IN  /\ \A s \in K .. (N - 1) : d_out[s - K] = LocalRec(d_scan[s])
            /\ \A j \in Idx : j >= N - K => d_out[j] = prev.d_out[j]
            /\ \A s \in 0 .. (K - 1) : \A j \in Idx :
                    d_out[j].tag # d_tag[d_scan[s]]

C3_Witness ==
    /\ pc = "removed"
    /\ N = MaxN
    /\ d_num_select = 1
    /\ \E j \in 0 .. 1 : d_out[j].comm_flag # mask

\* C4: for 5 particles with status flags [0,1,1,0,0] and mask 1, keep is
\* [1,0,0,1,1], K = 3, the permutation is [0,3,4,1,2], particles 0,3,4 land in
\* local slots 0,1,2 and particles 1,2 in outbound slots 0,1.
C4_WorkedExample ==
    (pc = "removed" /\ mask = 1 /\ N = ExampleN
        /\ \A i \in 0 .. (ExampleN - 1) : d_comm_flags[i] = ExampleFlags[i]) =>
        /\ \A i \in 0 .. 4 : d_tmp_flag[i] = IF i \in {0, 3, 4} THEN 1 ELSE 0
        /\ d_num_select = 3
        /\ <<d_scan[0], d_scan[1], d_scan[2], d_scan[3], d_scan[4]>> = <<0, 3, 4, 1, 2>>
        /\ AltRec(0) = LocalRec(0) /\ AltRec(1) = LocalRec(3) /\ AltRec(2) = LocalRec(4)
        /\ d_out[0] = LocalRec(1) /\ d_out[1] = LocalRec(2)

C6_PermutationBijection ==
    pc = "partitioned" =>
        /\ \A i \in 0 .. (N - 1) :
              Cardinality({s \in 0 .. (N - 1) : d_scan[s] = i}) = 1
        /\ \A s \in 0 .. (N - 1) : d_scan[s] \in 0 .. (N - 1)
        /\ d_num_select = Cardinality({i \in 0 .. (N - 1) : d_tmp_flag[i] = 1})
        /\ 0 <= d_num_select /\ d_num_select <= N

C6_Witness ==
    /\ pc = "partitioned"
    /\ N = MaxN
    /\ d_num_select = 1
    /\ d_tmp_flag[0] = 0

\* C7: if no particle has a mask bit set, classify and partition yield K = N
\* and the identity permutation, and remove copies every particle to the same
\* slot of the alternate arrays and writes nothing to the outbound buffer.
C7_EmptyRemoveSet ==
    (RemovedOf(d_comm_flags, mask, N) = {}) =>
        /\ pc \in {"partitioned", "removed"} =>
              /\ d_num_select = N
              /\ \A i \in 0 .. (N - 1) : d_scan[i] = i
        /\ pc = "removed" =>
              /\ \A i \in 0 .. (N - 1) : AltRec(i) = LocalRec(i)
              /\ d_out = prev.d_out

C7_Witness ==
    /\ pc = "removed"
    /\ N = MaxN
    /\ mask # 0
    /\ RemovedOf(d_comm_flags, mask, N) = {}
    /\ \E i \in 0 .. (N - 1) : d_comm_flags[i] # 0

\* C8: the degenerate inputs write nothing outside the valid ranges: N = 0
\* writes nothing; all kept gives K = N and an untouched outbound buffer; all
\* removed gives K = 0, no write to the alternate arrays and N outbound
\* elements.
C8_DegenerateInputs ==
    /\ (pc = "marked" /\ N = 0) =>
          d_tmp_flag = prev.d_tmp_flag /\ d_tmp_id = prev.d_tmp_id
    /\ (pc = "partitioned" /\ N = 0) =>
          d_scan = prev.d_scan /\ d_num_select = 0
    /\ (pc = "removed" /\ N = 0) =>
          AltArrays = PrevAltArrays /\ d_out = prev.d_out
    /\ (pc = "removed" /\ RemovedOf(d_comm_flags, mask, N) = {}) =>
          d_num_select = N /\ d_out = prev.d_out
    /\ (pc = "removed" /\ KeptOf(d_comm_flags, mask, N) = {}) =>
          /\ d_num_select = 0
          /\ AltArrays = PrevAltArrays
          /\ {d_out[j] : j \in 0 .. (N - 1)} = {LocalRec(i) : i \in 0 .. (N - 1)}
          /\ \A j \in Idx : j >= N => d_out[j] = prev.d_out[j]

C8_Witness ==
    /\ pc = "removed"
    /\ N = MaxN
    /\ KeptOf(d_comm_flags, mask, N) = {}
    /\ d_out[MaxN - 1] # PoisonElement
    /\ d_out[MaxN] = PoisonElement

\* C9: add_particles writes entry j of the inbound buffer to local index
\* K + j, position, velocity and tag verbatim and the status with exactly the
\* mask bits cleared; the new local count is K + M.
C9_AddParticles ==
    pc = "added" =>
        LET K == prev.N
            M == num_add_ptls
        IN  /\ \A j \in 0 .. (M - 1) :
                  /\ d_pos[K + j] = d_in[j].pos
                  /\ d_vel[K + j] = d_in[j].vel
                  /\ d_tag[K + j] = d_in[j].tag
                  /\ MaskCleared(d_comm_flags[K + j], d_in[j].comm_flag, mask_add)
            /\ N = K + M

C9_Witness ==
    /\ pc = "added"
    /\ num_add_ptls = MaxAdd
    /\ prev.N >= 1
    /\ \E j \in 0 .. (MaxAdd - 1) :
          /\ HasMaskBit(d_in[j].comm_flag, mask_add)
          /\ d_comm_flags[prev.N + j] # 0

\* C10: round trip: for a particle p flagged for removal, removing p and then
\* appending the exact transfer element produced for p yields a local record
\* with p's original position, velocity and tag and p's original status with
\* the mask bits cleared.  (After the buffer swap the alternate arrays hold
\* the records as they were before the removal.)
RoundTripPairs ==
    {<<i, j>> \in (0 .. (d_num_select + n_remove - 1)) \X (0 .. (num_add_ptls - 1)) :
        /\ HasMaskBit(d_comm_flags_alt[i], mask)
        /\ \E a \in 0 .. (n_remove - 1) : d_in[j] = d_out[a]
        /\ d_in[j].tag = d_tag_alt[i]}

C10_RoundTrip ==
    (pc = "added" /\ mask_add = mask) =>
        \A ij \in RoundTripPairs :
            LET i == ij[1]
                r == LocalRec(prev.N + ij[2])
            IN  /\ r.pos = d_pos_alt[i]
                /\ r.vel = d_vel_alt[i]
                /\ r.tag = d_tag_alt[i]
                /\ MaskCleared(r.comm_flag, d_comm_flags_alt[i], mask)

C10_Witness ==
    /\ pc = "added"
    /\ mask_add = mask
    /\ prev.N >= 1
    /\ \E ij \in RoundTripPairs :
          /\ ij[2] >= 1
          /\ d_comm_flags[prev.N + ij[2]] # 0


\* ==================================================== constraint solver host
\* ForceDistanceConstraintGPU::computeConstraintForces: the dense constraint
\* matrix is converted to CSR, the solver decides between the full
\* factorization (cusolverSp on the host, then cusolverRf set-up) and the
\* re-factorization (cusolverRf only), solves for the Lagrange multipliers
\* and launches the force kernel.  One solve is one step.  What the libraries
\* answer (a zero pivot, a status other than success) is an input of the step.

NPtl == 3       \* particles that constraints can join

\* candidate constraint k joins particle k and its successor on a ring
Ring == 0 .. (NPtl - 1)
Ends(k) == {k, (k + 1) % NPtl}
Shares(m, n) == Ends(m) \cap Ends(n) # {}
\* row / column of constraint k when the constraints cs are numbered in order
Rank(cs, k) == Cardinality({j \in cs : j < k})

\* cells of the dense matrix the fill kernel gives a value: row m, column n
\* for constraints m, n with a common particle
PatternOf(cs) ==
    {<<Rank(cs, e[1]), Rank(cs, e[2])>> : e \in {f \in cs \X cs : Shares(f[1], f[2])}}
OffDiagonal(pat) == {c \in pat : c[1] # c[2]}

\* cusparseDnnz: the number of nonzero cells
Dnnz(pat) == Cardinality(pat)

\* gpu_dense2sparse: "sparsity_pattern_changed = (nnz != new_nnz)"
SparsityChangedByCount_never(nnz, new_nnz) == FALSE
SparsityChangedByCount_always(nnz, new_nnz) == TRUE
SparsityChangedByCount(nnz, new_nnz) == nnz # new_nnz

\* "sparsity_pattern_changed |= m_constraints_dirty"
PatternChanged_countonly(by_count, dirty) == by_count
PatternChanged_always(by_count, dirty) == TRUE
PatternChanged(by_count, dirty) == by_count \/ dirty

\* "if (0 <= singularity)"
IsSingular_strict(singularity) == 0 < singularity
IsSingular(singularity) == 0 <= singularity

\* the library calls of one solve, in program order
FactorSteps == <<"cusolverSpCreate", "cusolverSpXcsrsymrcmHost",
                 "cusolverSpXcsrperm_bufferSizeHost", "cusolverSpXcsrpermHost",
                 "cusolverSpCreateCsrluInfoHost", "cusolverSpXcsrluAnalysisHost",
                 "cusolverSpDcsrluBufferInfoHost", "cusolverSpDcsrluFactorHost",
                 "cusolverSpDcsrluZeroPivotHost">>
ExtractSteps == <<"cusolverSpXcsrluNnzHost", "cusolverSpDcsrluExtractHost",
                  "cusolverSpDestroyCsrluInfoHost", "cusolverSpDestroy">>
RfCreateSteps == <<"cusolverRfCreate", "cusolverRfSetNumericProperties",
                   "cusolverRfSetAlgs", "cusolverRfSetMatrixFormat">>
RfSetupSteps == <<"cusolverRfSetupHost", "cusolverRfAnalyze">>
RfSolveSteps == <<"cusolverRfResetValues", "cusolverRfRefactor", "cusolverRfSolve">>
WritebackSteps == <<"gpu_compute_constraint_forces">>

Range(q) == {q[i] : i \in 1 .. Len(q)}
\* the factorization and solve calls; each returns a cusolverStatus_t
StatusSteps == {"cusolverSpXcsrsymrcmHost", "cusolverSpXcsrpermHost",
                "cusolverSpXcsrluAnalysisHost", "cusolverSpDcsrluFactorHost",
                "cusolverSpDcsrluExtractHost",
                "cusolverRfSetupHost", "cusolverRfAnalyze",
                "cusolverRfResetValues", "cusolverRfRefactor",
                "cusolverRfSolve"}

\* the calls made by one solve
TraceOf_noabort(changed, singular, rf_initialized) ==
    <<"gpu_dense2sparse">> \o
    (IF changed
     THEN FactorSteps \o ExtractSteps \o
          (IF ~rf_initialized THEN RfCreateSteps ELSE <<>>) \o RfSetupSteps
     ELSE <<>>) \o
    RfSolveSteps \o WritebackSteps
TraceOf_writebackfirst(changed, singular, rf_initialized) ==
    <<"gpu_dense2sparse">> \o
    (IF changed
     THEN FactorSteps \o
          (IF singular THEN <<>>
           ELSE ExtractSteps \o
                (IF ~rf_initialized THEN RfCreateSteps ELSE <<>>) \o
                RfSetupSteps)
     ELSE <<>>) \o
    (IF changed /\ singular THEN <<>> ELSE WritebackSteps \o RfSolveSteps)
TraceOf(changed, singular, rf_initialized) ==
    <<"gpu_dense2sparse">> \o
    (IF changed
     THEN FactorSteps \o
          (IF singular THEN <<>>
           ELSE ExtractSteps \o
                (IF ~rf_initialized THEN RfCreateSteps ELSE <<>>) \o
                RfSetupSteps)
     ELSE <<>>) \o
    (IF changed /\ singular THEN <<>> ELSE RfSolveSteps \o WritebackSteps)

\* how often a trace calls a step, counted up to 2
Calls(trace, step) ==
    LET n == Cardinality({i \in 1 .. Len(trace) : trace[i] = step})
    IN  IF n > 2 THEN 2 ELSE n
UpTo2(n) == IF n > 2 THEN 2 ELSE n

\* ~ForceDistanceConstraintGPU: the calls of the destructor
DestructorSteps(rf_initialized) ==
    <<"cusparseDestroy", "cusparseDestroyMatDescr">> \o
    (IF rf_initialized THEN <<"cusolverRfDestroy">> ELSE <<>>) \o
    <<"cusparseDestroyMatDescr", "cusparseDestroyMatDescr", "disconnect">>
\* the object exists: its destructor has not run
Alive == call.path # "destructor"

\* the handler of the groups-dirty signal of the constraint data
slotConstraintsDirty == m_constraints_dirty' = TRUE

\* Beside what the program did, the record of the call keeps "factored",
\* whether a full factorization has run to its end since the constraints or
\* the nonzero count last changed; "analyzed", the nonzero cells of the
\* matrix of the last full factorization, and whether this matrix has the
\* same nonzero cells.
\* "m_lagrange" and "m_force" are the two result arrays: the length of the
\* multiplier vector after the resize, and for each array whether this call
\* stored values in it; an array the call did not store to holds the values
\* it held before the call.  cusolverRfSolve stores the multipliers (the
\* copy of the right-hand side just before it is part of that step),
\* gpu_compute_constraint_forces stores the forces.
\* "rf_creates" counts the calls of cusolverRfCreate since construction, up
\* to 2.
\* dense: the nonzero cells of the matrix fillMatrixVector left;
\* singularity: the answer of cusolverSpDcsrluZeroPivotHost;
\* fail: the library call that answers with a status other than success
computeConstraintForces(dense, singularity, fail) ==
    LET new_nnz  == Dnnz(dense)
        by_count == SparsityChangedByCount(m_nnz_tot, new_nnz)
        changed  == PatternChanged(by_count, m_constraints_dirty)
        singular == changed /\ IsSingular(singularity)
        trace    == TraceOf(changed, singular, m_cusolver_rf_initialized)
    IN  /\ m_nnz_tot' = new_nnz
        /\ m_constraints_dirty' = FALSE
        /\ m_cusolver_rf_initialized' =
              (m_cusolver_rf_initialized \/ (changed /\ ~singular))
        /\ call' = [path |-> IF changed THEN "full" ELSE "fast",
                    trace |-> trace,
                    outcome |-> IF singular THEN "thrown" ELSE "done",
                    message |-> IF singular THEN "Singular constraint matrix."
                                ELSE "none",
                    by_count |-> by_count,
                    dirty |-> m_constraints_dirty,
                    count_differs |-> (m_nnz_tot # new_nnz),
                    nnz_new |-> new_nnz,
                    edits |-> edits,
                    first |-> (call.path = "none"),
                    prev_path |-> call.path,
                    singularity |-> IF changed THEN singularity ELSE -1,
                    failed |-> IF fail \in Range(trace) THEN fail ELSE "none",
                    factored |-> IF changed THEN ~singular
                                 ELSE /\ call.factored
                                      /\ edits = NoEdit
                                      /\ m_nnz_tot = new_nnz,
                    same_cells |-> (changed \/ dense = call.analyzed),
                    analyzed |-> IF changed THEN dense ELSE call.analyzed,
                    m_lagrange |->
                        [n |-> Cardinality(cons),
                         stored |-> "cusolverRfSolve" \in Range(trace)],
                    m_force |->
                        [stored |->
                            "gpu_compute_constraint_forces" \in Range(trace)],
                    rf_creates |->
                        UpTo2(call.rf_creates + Calls(trace, "cusolverRfCreate"))]

\* ForceDistanceConstraint::computeForces: fill, then solve.  Cells of two
\* different constraints can come out as zero (perpendicular bonds).
\* No library call fails here; StepSolveStatus below lets one fail.
StepSolve ==
    /\ Alive
    /\ \E zeros \in SUBSET OffDiagonal(PatternOf(cons)) :
          /\ Cardinality(zeros) <= 1
          /\ \E singularity \in -1 .. (Cardinality(cons) - 1) :
                computeConstraintForces(PatternOf(cons) \ zeros,
                                        singularity, "none")
    /\ edits' = NoEdit
    /\ UNCHANGED <<cons, migVars, thrVars, fillVars, nptVars, luVars>>

\* what happened to cons since the last solve: nothing, constraint k was
\* removed, that constraint was added again, or anything else
AfterRemove(k) == IF edits = NoEdit THEN <<"removed", k>> ELSE <<"other", -1>>
AfterAdd(k) == IF edits = <<"removed", k>> THEN <<"readded", k>> ELSE <<"other", -1>>

\* the constraint data: a constraint is added or removed, the signal fires
StepAddConstraint(k) ==
    /\ Alive
    /\ k \notin cons
    /\ cons' = cons \cup {k}
    /\ slotConstraintsDirty
    /\ edits' = AfterAdd(k)
    /\ UNCHANGED <<m_nnz_tot, m_cusolver_rf_initialized, call,
                   migVars, thrVars, fillVars, nptVars, luVars>>

StepRemoveConstraint(k) ==
    /\ Alive
    /\ k \in cons
    /\ cons' = cons \ {k}
    /\ slotConstraintsDirty
    /\ edits' = AfterRemove(k)
    /\ UNCHANGED <<m_nnz_tot, m_cusolver_rf_initialized, call,
                   migVars, thrVars, fillVars, nptVars, luVars>>

\* a solve in which one of the library calls may answer with a status other
\* than success
StepSolveStatus ==
    /\ Alive
    /\ \E singularity \in -1 .. (Cardinality(cons) - 1) :
       \E fail \in StatusSteps \cup {"none"} :
          /\ computeConstraintForces(PatternOf(cons), singularity, fail)
          /\ call'.failed = fail
    /\ edits' = NoEdit
    /\ UNCHANGED <<cons, migVars, thrVars, fillVars, nptVars, luVars>>

\* the migration arrays while another subsystem is studied
MigIdle ==
    /\ N = 0
    /\ d_pos = PoisonArray /\ d_vel = PoisonArray
    /\ d_tag = PoisonArray /\ d_comm_flags = PoisonArray
    /\ d_pos_alt = PoisonArray /\ d_vel_alt = PoisonArray
    /\ d_tag_alt = PoisonArray /\ d_comm_flags_alt = PoisonArray
    /\ d_tmp_flag = PoisonArray /\ d_tmp_id = PoisonArray
    /\ d_scan = PoisonArray /\ d_num_select = Poison
    /\ d_out = [i \in Idx |-> PoisonElement]
    /\ d_in = [i \in Idx |-> PoisonElement]
    /\ num_add_ptls = 0
    /\ mask = 0 /\ mask_add = 0 /\ n_remove = 0
    /\ pc = "idle"
    /\ prev = Snap

\* the state the constructor leaves, for any constraints already defined
InitSolve ==
    /\ cons \in SUBSET Ring
    /\ m_constraints_dirty = TRUE
    /\ m_nnz_tot = 0
    /\ m_cusolver_rf_initialized = FALSE
    /\ call = NoCall
    /\ edits = NoEdit
    /\ MigIdle /\ ThrIdle /\ FillIdle /\ NptIdle /\ LuIdle

NextSolve ==
    \/ StepSolve
    \/ \E k \in Ring : StepAddConstraint(k)
    \/ \E k \in Ring : StepRemoveConstraint(k)

SpecSolve == InitSolve /\ [][NextSolve]_vars

\* the destructor: the record keeps its calls and the count of creations
Destructor ==
    /\ Alive
    /\ call' = [NoCall EXCEPT
                   !.path = "destructor",
                   !.trace = DestructorSteps(m_cusolver_rf_initialized),
                   !.outcome = "done",
                   !.prev_path = call.path,
                   !.rf_creates = call.rf_creates]
    /\ UNCHANGED <<cons, m_constraints_dirty, m_nnz_tot,
                   m_cusolver_rf_initialized, edits,
                   migVars, thrVars, fillVars, nptVars, luVars>>

\* the whole life of the object: solves and changes of topology, until the
\* destructor runs
NextLifetime ==
    \/ StepSolve
    \/ \E k \in Ring : StepAddConstraint(k)
    \/ \E k \in Ring : StepRemoveConstraint(k)
    \/ Destructor

SpecLifetime == InitSolve /\ [][NextLifetime]_vars

NextStatus ==
    \/ StepSolveStatus
    \/ \E k \in Ring : StepAddConstraint(k)
    \/ \E k \in Ring : StepRemoveConstraint(k)

SpecStatus == InitSolve /\ [][NextStatus]_vars

\* ------------------------------------------------- properties of the solver
\* Vocabulary: what the last solve did, read from its record.
Solved == call.path # "none"
Took(step) == \E i \in 1 .. Len(call.trace) : call.trace[i] = step
\* symbolic analysis and numeric LU factorization were run
FullFactorization ==
    /\ Took("cusolverSpXcsrsymrcmHost")
    /\ Took("cusolverSpXcsrluAnalysisHost")
    /\ Took("cusolverSpDcsrluFactorHost")
    /\ Took("cusolverSpDcsrluZeroPivotHost")
\* the cusolver calls of the last solve, in order
SolverCalls ==
    SelectSeq(call.trace, LAMBDA x : x \notin {"gpu_dense2sparse",
                                               "gpu_compute_constraint_forces"})
NotifiedBefore == call.edits # NoEdit

\* C12: whenever a constraint was added or removed since the previous solve
\* (the groups-dirty notification fired), the solve runs the symbolic
\* analysis and the full LU factorization, whatever the solves before it did.
C12_NotificationForcesFull ==
    (Solved /\ NotifiedBefore) => (call.path = "full" /\ FullFactorization)
\* a notified solve that came after a fast-path solve
C12_Witness ==
    Solved /\ NotifiedBefore /\ call.prev_path = "fast" /\ FullFactorization

\* C13 as stated: a constraint removed and added again, the nonzero count as
\* at the previous solve: the change is detected by the count comparison and
\* the solve refactorizes in full.
ReaddedSameCount ==
    Solved /\ ~call.first /\ call.edits[1] = "readded" /\ ~call.count_differs
C13_ReaddedDetectedByCount ==
    ReaddedSameCount => (call.by_count /\ FullFactorization)
\* C13 amended: in that case the count comparison reports no change; the
\* change is detected through the dirty flag the notification set, and the
\* solve refactorizes in full.
C13_ReaddedDetectedByNotification ==
    ReaddedSameCount => (~call.by_count /\ call.dirty /\ FullFactorization)
C13_Witness ==
    ReaddedSameCount /\ call.path = "full" /\ call.outcome = "done"

\* C14: a solve whose fresh matrix has a nonzero count other than the cached
\* one runs the full factorization; after every solve the cached count is the
\* count of the fresh matrix.
C14_CountChangeForcesFull ==
    Solved => /\ call.count_differs => (call.path = "full" /\ FullFactorization)
              /\ m_nnz_tot = call.nnz_new
\* the count alone forced the full path: no notification, flag not set
C14_Witness ==
    /\ Solved /\ call.count_differs /\ ~call.dirty /\ ~NotifiedBefore
    /\ FullFactorization /\ m_nnz_tot = call.nnz_new

\* C15: when the zero-pivot check of the full path reports a pivot, the solve
\* logs "Singular constraint matrix.", throws, and runs no refactorization,
\* no triangular solve and no force writeback.
C15_SingularAborts ==
    (Solved /\ call.path = "full" /\ call.singularity >= 0) =>
        /\ call.outcome = "thrown"
        /\ call.message = "Singular constraint matrix."
        /\ call.trace[Len(call.trace)] = "cusolverSpDcsrluZeroPivotHost"
        /\ ~Took("cusolverRfRefactor")
        /\ ~Took("cusolverRfSolve")
        /\ ~Took("gpu_compute_constraint_forces")
\* the first pivot is the zero one
C15_Witness ==
    Solved /\ call.singularity = 0 /\ call.outcome = "thrown"

\* C16: a factorization or solve call that answers with a status other than
\* success ends the solve with a fatal error before the next call runs.
C16_StatusEscalated ==
    (Solved /\ call.failed # "none") =>
        /\ call.outcome = "thrown"
        /\ call.trace[Len(call.trace)] = call.failed

\* C17: a solve with no notification since the previous solve and an
\* unchanged nonzero count calls the solver library for reset-values,
\* refactorization and triangular solve only.
CleanStart == Solved /\ ~call.first /\ ~NotifiedBefore /\ ~call.count_differs
C17_CleanRefactorOnly ==
    CleanStart => /\ SolverCalls = <<"cusolverRfResetValues",
                                     "cusolverRfRefactor", "cusolverRfSolve">>
                  /\ call.trace[1] = "gpu_dense2sparse"
                  /\ call.trace[Len(call.trace)] = "gpu_compute_constraint_forces"
\* two clean solves in a row
C17_Witness ==
    CleanStart /\ call.prev_path = "fast" /\ call.path = "fast"

\* C24: a solve takes the fast path only if a full factorization, zero-pivot
\* check and cusolverRf set-up included, has run to its end since the
\* constraints or the nonzero count last changed; a solve that aborts on a
\* singular matrix leaves the solver dirty.
C24_CleanOnlyAfterFactorization ==
    (Solved /\ call.path = "fast") => call.factored
\* the part that holds: a solve that ran the full factorization to its end
\* has checked the pivot and set the handle up
FactoredInFull ==
    (Solved /\ call.path = "full" /\ call.outcome = "done") =>
        /\ call.factored
        /\ FullFactorization
        /\ Took("cusolverRfSetupHost") /\ Took("cusolverRfAnalyze")

\* C25: a solve on the fast path has a matrix with the nonzero cells of the
\* matrix of the last full factorization; nonzero cells that moved, the count
\* staying equal, do not reach the fast path.
C25_FastPathSamePattern ==
    (Solved /\ call.path = "fast") => call.same_cells

\* calls that use the cusolverRf handle
RfUses == Range(RfSetupSteps) \cup Range(RfSolveSteps)
PositionOf(step) == CHOOSE i \in 1 .. Len(call.trace) : call.trace[i] = step
HandleCreatedBeforeUse ==
    \A i \in 1 .. Len(call.trace) :
        call.trace[i] \in RfUses =>
            /\ m_cusolver_rf_initialized
            /\ Took("cusolverRfCreate") => PositionOf("cusolverRfCreate") < i
\* C26: the first solve after construction takes the full-factorization
\* path, also when its matrix has the cached nonzero count 0, and no solve
\* uses the cusolverRf handle before it was created.
C26_StartsDirty ==
    /\ (Solved /\ call.first) => (call.path = "full" /\ FullFactorization)
    /\ Solved => HandleCreatedBeforeUse
\* the part that holds: the first solve, whatever its nonzero count
FirstSolveFull ==
    (Solved /\ call.first) => (call.path = "full" /\ FullFactorization)
\* and the handle, in every solve but the fast-path ones that follow an
\* aborted factorization
HandleCreatedWhenFactored ==
    (Solved /\ (call.path = "full" \/ call.factored)) => HandleCreatedBeforeUse
FirstSolveFullReached ==
    Solved /\ call.first /\ ~call.count_differs /\ call.path = "full"


\* ================================================ kernels, thread by thread
\* remove_particles and add_particles seen as their threads: a thread loads
\* (the ThreadLoad lines, "p = d_in[idx]") and later stores; the loads and
\* stores of different threads interleave in every order.  thr holds the
\* kernel parameters of the launch, where each thread is (at), what it has
\* loaded (regs) and the accesses made so far as <<array, slot, thread>>.
Launch(kernel, n_keep, old, num, m, threads) ==
    [kernel |-> kernel, n_keep |-> n_keep, old |-> old, num |-> num,
     mask |-> m,
     at |-> [idx \in threads |-> "ready"],
     regs |-> [idx \in threads |-> PoisonElement],
     reads |-> {}, writes |-> {}]

Joined == \A idx \in DOMAIN thr.at : thr.at[idx] = "done"

\* remove_particles<<<N / block_size + 1, block_size>>>
RemoveLaunch ==
    /\ pc = "partitioned"
    /\ thr' = Launch("remove", d_num_select, 0, N, 0, RemoveThreads(N))
    /\ pc' = "removing"
    /\ UNCHANGED <<dev, mask, mask_add, n_remove, prev, solveVars, fillVars, nptVars, luVars>>

\* the loads of thread idx
RemoveLoad(idx) ==
    /\ pc = "removing"
    /\ idx \in DOMAIN thr.at /\ thr.at[idx] = "ready"
    /\ LET pid == SourceIndex(d_scan, idx)
       IN thr' = [thr EXCEPT
              !.at[idx] = "loaded",
              !.regs[idx] = Element(Load(d_pos, pid), Load(d_vel, pid),
                                    Load(d_tag, pid), Load(d_comm_flags, pid)),
              !.reads = @ \cup {<<"d_scan", idx, idx>>, <<"d_pos", pid, idx>>,
                                <<"d_vel", pid, idx>>, <<"d_tag", pid, idx>>,
                                <<"d_comm_flags", pid, idx>>}]
    /\ UNCHANGED <<migVars, solveVars, fillVars, nptVars, luVars>>

\* the stores of thread idx
RemoveStore(idx) ==
    /\ pc = "removing"
    /\ idx \in DOMAIN thr.at /\ thr.at[idx] = "loaded"
    /\ IF ToOutbound(idx, thr.n_keep)
       THEN /\ d_out' = [d_out EXCEPT ![OutSlot(idx, thr.n_keep)] = thr.regs[idx]]
            /\ thr' = [thr EXCEPT
                   !.at[idx] = "done",
                   !.writes = @ \cup {<<"d_out", OutSlot(idx, thr.n_keep), idx>>}]
            /\ UNCHANGED <<d_pos_alt, d_vel_alt, d_tag_alt, d_comm_flags_alt>>
       ELSE /\ d_pos_alt' = [d_pos_alt EXCEPT ![idx] = thr.regs[idx].pos]
            /\ d_vel_alt' = [d_vel_alt EXCEPT ![idx] = thr.regs[idx].vel]
            /\ d_tag_alt' = [d_tag_alt EXCEPT ![idx] = thr.regs[idx].tag]
            /\ d_comm_flags_alt' =
                   [d_comm_flags_alt EXCEPT ![idx] = thr.regs[idx].comm_flag]
            /\ thr' = [thr EXCEPT
                   !.at[idx] = "done",
                   !.writes = @ \cup {<<"d_pos_alt", idx, idx>>,
                                      <<"d_vel_alt", idx, idx>>,
                                      <<"d_tag_alt", idx, idx>>,
                                      <<"d_comm_flags_alt", idx, idx>>}]
            /\ UNCHANGED d_out
    /\ UNCHANGED <<N, d_pos, d_vel, d_tag, d_comm_flags, d_tmp_flag, d_tmp_id,
                   d_scan, d_num_select, d_in, num_add_ptls,
                   mask, mask_add, n_remove, pc, prev, solveVars, fillVars, nptVars, luVars>>

\* the kernel has ended: all its threads are done
RemoveJoin ==
    /\ pc = "removing" /\ Joined
    /\ n_remove' = N - d_num_select
    /\ pc' = "removed"
    /\ UNCHANGED <<dev, mask, mask_add, prev, thrVars, solveVars, fillVars, nptVars, luVars>>

\* add_particles<<<num_add_ptls / block_size + 1, block_size>>>
AddLaunch(m) ==
    /\ pc = "received"
    /\ thr' = Launch("add", 0, N, num_add_ptls, m, AddThreads(num_add_ptls))
    /\ mask_add' = m
    /\ pc' = "adding"
    /\ UNCHANGED <<dev, mask, n_remove, prev, solveVars, fillVars, nptVars, luVars>>

AddLoad(idx) ==
    /\ pc = "adding"
    /\ idx \in DOMAIN thr.at /\ thr.at[idx] = "ready"
    /\ thr' = [thr EXCEPT !.at[idx] = "loaded",
                          !.regs[idx] = Load(d_in, idx),
                          !.reads = @ \cup {<<"d_in", idx, idx>>}]
    /\ UNCHANGED <<migVars, solveVars, fillVars, nptVars, luVars>>

AddStore(idx) ==
    /\ pc = "adding"
    /\ idx \in DOMAIN thr.at /\ thr.at[idx] = "loaded"
    /\ LET add_idx == AddIndex(thr.old, idx)
           p == thr.regs[idx]
       IN /\ d_pos' = [d_pos EXCEPT ![add_idx] = p.pos]
          /\ d_vel' = [d_vel EXCEPT ![add_idx] = p.vel]
          /\ d_tag' = [d_tag EXCEPT ![add_idx] = p.tag]
          /\ d_comm_flags' =
                 [d_comm_flags EXCEPT ![add_idx] = Unmask(p.comm_flag, thr.mask)]
          /\ thr' = [thr EXCEPT
                 !.at[idx] = "done",
                 !.writes = @ \cup {<<"d_pos", add_idx, idx>>,
                                    <<"d_vel", add_idx, idx>>,
                                    <<"d_tag", add_idx, idx>>,
                                    <<"d_comm_flags", add_idx, idx>>}]
    /\ UNCHANGED <<N, d_pos_alt, d_vel_alt, d_tag_alt, d_comm_flags_alt,
                   d_tmp_flag, d_tmp_id, d_scan, d_num_select, d_out, d_in,
                   num_add_ptls, mask, mask_add, n_remove, pc, prev,
                   solveVars, fillVars, nptVars, luVars>>

AddJoin ==
    /\ pc = "adding" /\ Joined
    /\ N' = N + num_add_ptls
    /\ pc' = "added"
    /\ UNCHANGED <<d_pos, d_vel, d_tag, d_comm_flags,
                   d_pos_alt, d_vel_alt, d_tag_alt, d_comm_flags_alt,
                   d_tmp_flag, d_tmp_id, d_scan, d_num_select, d_out, d_in,
                   num_add_ptls, mask, mask_add, n_remove, prev,
                   thrVars, solveVars, fillVars, nptVars, luVars>>

\* The state after classification with mask 1 and partition: status words 0
\* and 1, the permutation and the selected count as partition_particles
\* leaves them.
InitThreads ==
    /\ N \in 0 .. MaxN
    /\ d_tag = [i \in Idx |-> IF i < N THEN i + 1 ELSE Poison]
    /\ d_pos = [i \in Idx |-> IF i < N THEN PosOf(i + 1) ELSE Poison]
    /\ d_vel = [i \in Idx |-> IF i < N THEN VelOf(i + 1) ELSE Poison]
    /\ \E fl \in [0 .. (N - 1) -> {0, 1}] :
          LET keep == [i \in 0 .. (N - 1) |-> KeepFlag(fl[i], 1)]
          IN /\ d_comm_flags = [i \in Idx |-> IF i < N THEN fl[i] ELSE Poison]
             /\ d_tmp_flag = [i \in Idx |-> IF i < N THEN keep[i] ELSE Poison]
             /\ d_scan = [s \in Idx |->
                    IF s < N
                    THEN CHOOSE i \in 0 .. (N - 1) : ScatterSlot(keep, i, N) = s
                    ELSE Poison]
             /\ d_num_select = NumSelected(keep, N)
    /\ d_tmp_id = [i \in Idx |-> IF i < N THEN i ELSE Poison]
    /\ d_pos_alt = PoisonArray /\ d_vel_alt = PoisonArray
    /\ d_tag_alt = PoisonArray /\ d_comm_flags_alt = PoisonArray
    /\ d_out = [i \in Idx |-> PoisonElement]
    /\ d_in = [i \in Idx |-> PoisonElement]
    /\ num_add_ptls = 0
    /\ mask = 1
    /\ mask_add = 0
    /\ n_remove = 0
    /\ pc = "partitioned"
    /\ prev = Snap
    /\ SolveIdle /\ ThrIdle /\ FillIdle /\ NptIdle /\ LuIdle

NextThreads ==
    \/ RemoveLaunch
    \/ \E idx \in Idx : RemoveLoad(idx)
    \/ \E idx \in Idx : RemoveStore(idx)
    \/ RemoveJoin
    \/ StepSwap
    \/ StepReceive
    \/ \E m \in {0, 2^FlagBits - 1} : AddLaunch(m)
    \/ \E idx \in Idx : AddLoad(idx)
    \/ \E idx \in Idx : AddStore(idx)
    \/ AddJoin

SpecThreads == InitThreads /\ [][NextThreads]_vars

\* ------------------------------------------------ properties of the threads
\* the slots a finished launch has to have written
OutputSlots ==
    IF thr.kernel = "remove"
    THEN {<<a, s>> : a \in {"d_pos_alt", "d_vel_alt", "d_tag_alt",
                            "d_comm_flags_alt"},
                     s \in 0 .. (thr.n_keep - 1)}
         \cup {<<"d_out", s>> : s \in 0 .. (thr.num - thr.n_keep - 1)}
    ELSE IF thr.kernel = "add"
    THEN {<<a, s>> : a \in {"d_pos", "d_vel", "d_tag", "d_comm_flags"},
                     s \in thr.old .. (thr.old + thr.num - 1)}
    ELSE {}
WritersOf(a, s) == {w[3] : w \in {x \in thr.writes : x[1] = a /\ x[2] = s}}

\* C11: at every point of every interleaving no slot has been written by two
\* threads and no thread has read a location another thread of the launch
\* writes; when the launch has ended, each of its output slots has been
\* written by exactly one thread and nothing else has been written.
C11_NoDataRace ==
    /\ \A w \in thr.writes : WritersOf(w[1], w[2]) = {w[3]}
    /\ \A r \in thr.reads : WritersOf(r[1], r[2]) \subseteq {r[3]}
    /\ (thr.kernel # "none" /\ Joined) =>
          /\ \A o \in OutputSlots : Cardinality(WritersOf(o[1], o[2])) = 1
          /\ \A w \in thr.writes : <<w[1], w[2]>> \in OutputSlots
\* a finished add launch of two threads that followed a remove launch in
\* which both branches stored
C11_Witness ==
    /\ thr.kernel = "add" /\ Joined /\ thr.num >= 2 /\ pc = "added"
    /\ n_remove >= 1 /\ thr.old >= 2


\* ======================================================= constraint kernels
\* gpu_fill_matrix_vector_kernel and gpu_fill_constraint_forces_kernel, one
\* thread per local particle, the threads of a launch in every order.
\* Vectors are pairs of integers; masses are 1 or 2, net forces are even and
\* the time step is 1, which makes every quotient the kernels form exact;
\* the solution of the linear system is kept as exact fractions.
\* sys holds what the kernels are handed: the constraints (candidate k of the
\* ring is absent, or joins a = k to b = successor, or a = successor to
\* b = k), the local particle count, positions, velocities, net forces,
\* masses, the constraint distance and the time step.

BoxL == 8       \* edge of the periodic box

Dot(u, v) == u[1] * v[1] + u[2] * v[2]
VSub(u, v) == <<u[1] - v[1], u[2] - v[2]>>
VAdd(u, v) == <<u[1] + v[1], u[2] + v[2]>>
VScale(c, v) == <<c * v[1], c * v[2]>>
VDiv(v, c) == <<v[1] \div c, v[2] \div c>>
Zero == <<0, 0>>

\* BoxDim::minImage, per component
MinImage1(x) ==
    IF x >= BoxL \div 2 THEN x - BoxL
    ELSE IF x < -(BoxL \div 2) THEN x + BoxL ELSE x
minImage(v) == <<MinImage1(v[1]), MinImage1(v[2])>>

\* the constraint data and its GPU table
Present == {k \in Ring : sys.topo[k] # "none"}
n_constraint == Cardinality(Present)
MemberA(k) == IF sys.topo[k] = "fwd" THEN k ELSE (k + 1) % NPtl
MemberB(k) == IF sys.topo[k] = "fwd" THEN (k + 1) % NPtl ELSE k
ConstraintsOf(ptl) == {k \in Present : ptl \in Ends(k)}
\* table entry of particle ptl for constraint k: idx[0], idx[1], cpos
TableEntry(ptl, k) ==
    [other |-> IF MemberA(k) = ptl THEN MemberB(k) ELSE MemberA(k),
     n |-> Rank(Present, k),
     cpos |-> IF MemberA(k) = ptl THEN 0 ELSE 1]

\* "if (idx >= nptl_local) return;"
LocalThread(idx, nptl_local) == ~(idx >= nptl_local)
FillThreads == {idx \in 0 .. (NPtl - 1) : LocalThread(idx, sys.nptl_local)}

\* "indices of constrained ptls in correct order"
OrderedPair_asis(cpos, ptl, other) == <<ptl, other>>
OrderedPair(cpos, ptl, other) == IF cpos = 0 THEN <<ptl, other>> ELSE <<other, ptl>>

\* the four contributions to a matrix element
MatElement(idx_na, idx_nb, idx_ma, idx_mb, qn, rm, ma, mb) ==
      (IF idx_na = idx_ma THEN (4 * Dot(qn, rm)) \div ma ELSE 0)
    - (IF idx_na = idx_mb THEN (4 * Dot(qn, rm)) \div ma ELSE 0)
    - (IF idx_nb = idx_ma THEN (4 * Dot(qn, rm)) \div mb ELSE 0)
    + (IF idx_nb = idx_mb THEN (4 * Dot(qn, rm)) \div mb ELSE 0)

\* "d_matrix[m*n_constraint+n]"
CellIndex_flat(m, n, nc) == m + n
CellIndex(m, n, nc) == m * nc + n

\* "if (cpos == 0 || idx_na >= nptl_local || idx_nb >= nptl_local)"
RhsOwner_primary(cpos, idx_na, idx_nb, nptl_local) == cpos = 0
RhsOwner(cpos, idx_na, idx_nb, nptl_local) ==
    cpos = 0 \/ idx_na >= nptl_local \/ idx_nb >= nptl_local

\* the vector component
RhsValue_plus(qn, d, deltaT, Fa, Fb, ma, mb) ==
    ((Dot(qn, qn) + d * d) \div deltaT) \div deltaT
    + 2 * Dot(qn, VSub(VDiv(Fa, ma), VDiv(Fb, mb)))
RhsValue(qn, d, deltaT, Fa, Fb, ma, mb) ==
    ((Dot(qn, qn) - d * d) \div deltaT) \div deltaT
    + 2 * Dot(qn, VSub(VDiv(Fa, ma), VDiv(Fb, mb)))

\* separation of constraint k's members at t + 2*deltaT, as thread ptl forms it
Separation(ab) == minImage(VSub(sys.pos[ab[1]], sys.pos[ab[2]]))
Advanced(ab) ==
    VAdd(Separation(ab), VScale(sys.deltaT, VSub(sys.vel[ab[1]], sys.vel[ab[2]])))

\* the stores of thread idx of the fill kernel, as <<array, index, value>>
FillStores(idx) ==
    UNION {
      LET ci == TableEntry(idx, ki)
          nab == OrderedPair(ci.cpos, idx, ci.other)
          qn == Advanced(nab)
          ma == sys.mass[nab[1]]
          mb == sys.mass[nab[2]]
      IN  {LET cj == TableEntry(ci.other, kj)
               mab == OrderedPair(cj.cpos, ci.other, cj.other)
           IN <<"d_matrix", CellIndex(cj.n, ci.n, n_constraint),
                MatElement(nab[1], nab[2], mab[1], mab[2], qn,
                           Separation(mab), ma, mb)>>
           : kj \in ConstraintsOf(ci.other)}
          \cup
          (IF RhsOwner(ci.cpos, nab[1], nab[2], sys.nptl_local)
           THEN {<<"d_vec", ci.n,
                   RhsValue(qn, sys.d, sys.deltaT, sys.netforce[nab[1]],
                            sys.netforce[nab[2]], ma, mb)>>}
           ELSE {})
      : ki \in ConstraintsOf(idx)}

\* "d_matrix[...] = mat_element", "d_vec[n] = ...": plain assignments
StoreTo_accumulate(old, value) == old + value
StoreTo(old, value) == value
Stored(arr, name, stores) ==
    [c \in DOMAIN arr |->
        IF \E w \in stores : w[1] = name /\ w[2] = c
        THEN StoreTo(arr[c], (CHOOSE w \in stores : w[1] = name /\ w[2] = c)[3])
        ELSE arr[c]]
Logged(idx, stores) == {<<w[1], w[2], idx, w[3]>> : w \in stores}

\* "cudaMemset(d_vec, 0, ...)", "cudaMemset(d_matrix, 0, ...)"
Memset_skipped(arr) == arr
Memset(arr) == [c \in DOMAIN arr |-> 0]

\* gpu_fill_matrix_vector: both arrays are cleared, then the kernel starts
FillLaunch ==
    /\ kpc = "start"
    /\ d_matrix' = Memset(d_matrix)
    /\ d_vec' = Memset(d_vec)
    /\ ran' = {}
    /\ writers' = {}
    /\ kpc' = "fill"
    /\ UNCHANGED <<sys, d_lagrange, d_force, migVars, solveVars, thrVars, nptVars, luVars>>

gpu_fill_matrix_vector_kernel(idx) ==
    /\ kpc = "fill"
    /\ idx \in FillThreads \ ran
    /\ d_matrix' = Stored(d_matrix, "d_matrix", FillStores(idx))
    /\ d_vec' = Stored(d_vec, "d_vec", FillStores(idx))
    /\ writers' = writers \cup Logged(idx, FillStores(idx))
    /\ ran' = ran \cup {idx}
    /\ UNCHANGED <<sys, d_lagrange, d_force, kpc, migVars, solveVars, thrVars, nptVars, luVars>>

\* The solve between the two kernels: the multipliers are the solution of
\* A * lagrange = d_vec, A(n, m) = d_matrix[m*n_constraint+n] (the dense
\* array is read in column-major order).
Cons == 0 .. (n_constraint - 1)
A == [e \in Cons \X Cons |-> d_matrix[e[2] * n_constraint + e[1]]]
\* determinant of M over the rows and columns given, along the lowest row
RECURSIVE Det(_, _, _)
RECURSIVE DetRow(_, _, _, _)
DetRow(M, rows, cols, rest) ==
    IF rest = {} THEN 0
    ELSE LET r == CHOOSE x \in rows : \A y \in rows : x <= y
             c == CHOOSE x \in rest : \A y \in rest : x <= y
             sign == IF Cardinality({y \in cols : y < c}) % 2 = 0 THEN 1 ELSE -1
         IN sign * M[<<r, c>>] * Det(M, rows \ {r}, cols \ {c})
            + DetRow(M, rows, cols, rest \ {c})
Det(M, rows, cols) == IF rows = {} THEN 1 ELSE DetRow(M, rows, cols, cols)
\* Cramer's rule: numerator of multiplier i
Numerator(i) ==
    Det([e \in Cons \X Cons |-> IF e[2] = i THEN d_vec[e[1]] ELSE A[e]],
        Cons, Cons)

\* A singular matrix ends the step (the zero-pivot test).  A multiplier is
\* kept as the fraction <<numerator, determinant>>.
SolveLagrange ==
    /\ kpc = "fill" /\ ran = FillThreads
    /\ LET det == Det(A, Cons, Cons)
       IN IF det = 0
          THEN kpc' = "singular" /\ UNCHANGED d_lagrange
          ELSE /\ d_lagrange' = [i \in Cons |-> <<Numerator(i), det>>]
               /\ kpc' = "solved"
    /\ ran' = {}
    /\ UNCHANGED <<sys, d_matrix, d_vec, d_force, writers,
                   migVars, solveVars, thrVars, nptVars, luVars>>

\* "f += -2*lagrange[n]*rn" for cpos 0, "f += 2*lagrange[n]*rn" otherwise
ForceTerm_samesign(cpos, lam, rn) == VScale(2 * lam, rn)
ForceTerm(cpos, lam, rn) ==
    IF cpos = 0 THEN VScale(-2 * lam, rn) ELSE VScale(2 * lam, rn)

\* The force thread idx accumulates over its constraints.  All multipliers
\* have the same denominator; the sum is formed over the numerators.
RECURSIVE ForceSum(_, _)
ForceSum(idx, ks) ==
    IF ks = {} THEN Zero
    ELSE LET k == CHOOSE x \in ks : \A y \in ks : x <= y
             c == TableEntry(idx, k)
             rn == Separation(OrderedPair(c.cpos, idx, c.other))
         IN VAdd(ForceTerm(c.cpos, d_lagrange[c.n][1], rn),
                 ForceSum(idx, ks \ {k}))
\* the force as the fraction <<numerators, determinant>>
Force(idx) ==
    <<ForceSum(idx, ConstraintsOf(idx)), Det(A, Cons, Cons)>>

\* "d_force[idx] = make_scalar4(f.x,f.y,f.z,Scalar(0.0))"
ForceStore_added(old, f) == <<VAdd(old[1], f[1]), f[2]>>
ForceStore(old, f) == f

gpu_fill_constraint_forces_kernel(idx) ==
    /\ kpc = "solved"
    /\ idx \in FillThreads \ ran
    /\ d_force' = [d_force EXCEPT ![idx] = ForceStore(d_force[idx], Force(idx))]
    /\ writers' = writers \cup {<<"d_force", idx, idx, Force(idx)>>}
    /\ ran' = ran \cup {idx}
    /\ UNCHANGED <<sys, d_matrix, d_vec, d_lagrange, kpc,
                   migVars, solveVars, thrVars, nptVars, luVars>>

ForcesDone ==
    /\ kpc = "solved" /\ ran = FillThreads
    /\ kpc' = "forces"
    /\ UNCHANGED <<sys, d_matrix, d_vec, d_lagrange, d_force, ran, writers,
                   migVars, solveVars, thrVars, nptVars, luVars>>

\* The systems tried.  Positions: on a line one apart; the same line across
\* the periodic boundary; around a unit square (neighbouring bonds at right
\* angles).  Motion: at rest; all drifting alike; sheared; at rest under net
\* forces.  Masses: all 1, or 1 and 2 in turn.
Particles == 0 .. (NPtl - 1)
Positions ==
    {[i \in Particles |-> <<i - 1, 0>>],
     [i \in Particles |-> <<((i + BoxL - 1) % BoxL) - BoxL \div 2, 0>>],
     [i \in Particles |-> <<IF i % 4 \in {1, 2} THEN 1 ELSE 0,
                            IF i % 4 \in {2, 3} THEN 1 ELSE 0>>]}
Motions ==
    {[vel |-> [i \in Particles |-> Zero], netforce |-> [i \in Particles |-> Zero]],
     [vel |-> [i \in Particles |-> <<1, 0>>], netforce |-> [i \in Particles |-> Zero]],
     [vel |-> [i \in Particles |-> <<0, i>>], netforce |-> [i \in Particles |-> Zero]],
     [vel |-> [i \in Particles |-> Zero],
      netforce |-> [i \in Particles |-> <<4 * (i % 2), 0>>]]}
Masses == {[i \in Particles |-> 1], [i \in Particles |-> 1 + (i % 2)]}
Distances == {1, 2}

InitFill ==
    /\ \E topo \in [Ring -> {"none", "fwd", "bwd"}], nl \in 1 .. NPtl,
          pos \in Positions, mo \in Motions, mass \in Masses, d \in Distances :
          /\ sys = [topo |-> topo, nptl_local |-> nl, pos |-> pos,
                    vel |-> mo.vel, netforce |-> mo.netforce, mass |-> mass,
                    d |-> d, deltaT |-> 1]
          \* a domain holds the constraints that have a local member
          /\ \A k \in Ring : topo[k] # "none" => \E i \in Ends(k) : i < nl
    /\ d_matrix = [c \in 0 .. (n_constraint * n_constraint - 1) |-> Poison]
    /\ d_vec = [c \in Cons |-> Poison]
    /\ d_lagrange = [c \in Cons |-> <<Poison, 1>>]
    /\ d_force = [i \in Particles |-> <<<<Poison, Poison>>, 1>>]
    /\ ran = {}
    /\ writers = {}
    /\ kpc = "start"
    /\ MigIdle /\ SolveIdle /\ ThrIdle /\ NptIdle /\ LuIdle

NextFill ==
    \/ FillLaunch
    \/ \E idx \in Particles : gpu_fill_matrix_vector_kernel(idx)
    \/ SolveLagrange
    \/ \E idx \in Particles : gpu_fill_constraint_forces_kernel(idx)
    \/ ForcesDone

SpecFill == InitFill /\ [][NextFill]_vars

\* --------------------------------------- properties of the constraint kernels
\* Vocabulary: the threads that stored to a location; the constraint with a
\* given index; the phases of the step.
ThreadsStoring(name, c) ==
    {w[3] : w \in {x \in writers : x[1] = name /\ x[2] = c}}
ValuesStored(name, c) ==
    {w[4] : w \in {x \in writers : x[1] = name /\ x[2] = c}}
ConstraintAt(n) == CHOOSE k \in Present : Rank(Present, k) = n
IsLocal(i) == i < sys.nptl_local
LocalEnds(k) == {i \in Ends(k) : IsLocal(i)}
FillEnded == kpc \in {"singular", "solved", "forces"} \/
             (kpc = "fill" /\ ran = FillThreads)
Solved1 == kpc \in {"solved", "forces"}

\* C18: one constraint, its members at the constraint distance, moving alike,
\* no net force on either: the vector entry is 0, the matrix is not singular,
\* the multiplier is 0 and the force written for each member is 0.
AtEquilibrium ==
    /\ n_constraint = 1
    /\ LET k == ConstraintAt(0)
           r == minImage(VSub(sys.pos[MemberA(k)], sys.pos[MemberB(k)]))
       IN /\ Dot(r, r) = sys.d * sys.d
          /\ sys.vel[MemberA(k)] = sys.vel[MemberB(k)]
          /\ sys.netforce[MemberA(k)] = Zero
          /\ sys.netforce[MemberB(k)] = Zero
C18_EquilibriumZero ==
    AtEquilibrium =>
        /\ FillEnded => d_vec[0] = 0
        /\ kpc # "singular"
        /\ Solved1 => d_lagrange[0][1] = 0
        /\ kpc = "forces" =>
              \A i \in LocalEnds(ConstraintAt(0)) : d_force[i][1] = Zero
\* both members local and drifting, across the periodic boundary
C18_Witness ==
    /\ AtEquilibrium /\ kpc = "forces"
    /\ LocalEnds(ConstraintAt(0)) = Ends(ConstraintAt(0))
    /\ sys.vel[0] # Zero
    /\ \E i \in Ends(ConstraintAt(0)) : sys.pos[i][1] < 0
    /\ \E i \in Ends(ConstraintAt(0)) : sys.pos[i][1] > 0

\* C19: the vector entry of a constraint is stored by no thread but its
\* owner: member a (cpos 0) when both members are local, the local member
\* otherwise; when the kernel has ended, the owner has stored it, once.
RhsOwnerOf(k) ==
    IF LocalEnds(k) = Ends(k) THEN MemberA(k)
    ELSE CHOOSE i \in LocalEnds(k) : TRUE
C19_RhsWrittenOnce ==
    \A k \in Present :
        LocalEnds(k) # {} =>
            LET n == Rank(Present, k)
            IN /\ ThreadsStoring("d_vec", n) \subseteq {RhsOwnerOf(k)}
               /\ FillEnded =>
                     /\ ThreadsStoring("d_vec", n) = {RhsOwnerOf(k)}
                     /\ Cardinality({w \in writers : w[1] = "d_vec" /\ w[2] = n}) = 1
\* one constraint with both members local, one whose member a is not local
C19_Witness ==
    /\ FillEnded
    /\ \E k \in Present : LocalEnds(k) = Ends(k)
    /\ \E k \in Present : ~IsLocal(MemberA(k)) /\ IsLocal(MemberB(k))

\* C20 as stated: no cell of the matrix is stored by two threads.
MatrixCells == 0 .. (n_constraint * n_constraint - 1)
C20_OneThreadPerCell ==
    \A c \in MatrixCells : Cardinality(ThreadsStoring("d_matrix", c)) <= 1
\* What the kernel keeps to: a cell of two different constraints is stored by
\* at most one thread; the diagonal cell of a constraint is stored by its
\* local members (by two threads when both are local); the threads that
\* store to a cell store the same value.
CellsByMembers ==
    \A c \in MatrixCells :
        LET m == c \div n_constraint
            n == c % n_constraint
        IN /\ m # n => Cardinality(ThreadsStoring("d_matrix", c)) <= 1
           /\ m = n => /\ ThreadsStoring("d_matrix", c) \subseteq
                              LocalEnds(ConstraintAt(n))
                       /\ FillEnded => ThreadsStoring("d_matrix", c) =
                                          LocalEnds(ConstraintAt(n))
           /\ Cardinality(ValuesStored("d_matrix", c)) <= 1
\* three constraints around a shared particle, all local: a diagonal cell
\* with two threads, a cell of two different constraints with one
CellsByMembersReached ==
    /\ FillEnded /\ n_constraint = NPtl /\ sys.nptl_local = NPtl
    /\ \E c \in MatrixCells : Cardinality(ThreadsStoring("d_matrix", c)) = 2
    /\ \E c \in MatrixCells : /\ c \div n_constraint # c % n_constraint
                              /\ Cardinality(ThreadsStoring("d_matrix", c)) = 1
                              /\ d_matrix[c] # 0

\* the matrix element of constraints kn, km by the formula: 4 (q_n . r_m)
\* [([na=ma] - [na=mb]) / mass_a + ([nb=mb] - [nb=ma]) / mass_b]
B(cond) == IF cond THEN 1 ELSE 0
ElementByFormula(kn, km) ==
    LET na == MemberA(kn)
        nb == MemberB(kn)
        ma == MemberA(km)
        mb == MemberB(km)
        q == VAdd(minImage(VSub(sys.pos[na], sys.pos[nb])),
                  VScale(sys.deltaT, VSub(sys.vel[na], sys.vel[nb])))
        r == minImage(VSub(sys.pos[ma], sys.pos[mb]))
    IN (4 * Dot(q, r) * (B(na = ma) - B(na = mb))) \div sys.mass[na]
       + (4 * Dot(q, r) * (B(nb = mb) - B(nb = ma))) \div sys.mass[nb]
CellOf(kn, km) == Rank(Present, km) * n_constraint + Rank(Present, kn)

\* C21: when the fill kernel has ended, for every constraint n with a local
\* member and every constraint m with a member in common with n, the cell
\* of (n, m) holds the value of the formula.
C21_CellsHoldFormula ==
    FillEnded =>
        \A kn \in Present, km \in Present :
            (LocalEnds(kn) # {} /\ Shares(kn, km)) =>
                d_matrix[CellOf(kn, km)] = ElementByFormula(kn, km)
\* the same, for the constraints n whose two members are both local
CellsHoldFormulaLocal ==
    FillEnded =>
        \A kn \in Present, km \in Present :
            (LocalEnds(kn) = Ends(kn) /\ Shares(kn, km)) =>
                d_matrix[CellOf(kn, km)] = ElementByFormula(kn, km)

\* the constraint force of particle p by the formula, over the common
\* denominator of the multipliers: for each constraint of p, -2 lambda r when
\* p is its first member, +2 lambda r when p is its second
RECURSIVE ForceByFormula(_, _)
ForceByFormula(p, ks) ==
    IF ks = {} THEN Zero
    ELSE LET k == CHOOSE x \in ks : TRUE
             lam == d_lagrange[Rank(Present, k)][1]
             r == minImage(VSub(sys.pos[MemberA(k)], sys.pos[MemberB(k)]))
         IN VAdd(VScale((IF MemberA(k) = p THEN -2 ELSE 2) * lam, r),
                 ForceByFormula(p, ks \ {k}))

\* C22: after the force kernel, the force of every local particle is the sum
\* of -2 lambda_n r_n over the constraints it is first member of and of
\* +2 lambda_n r_n over those it is second member of.
C22_ForceWriteback ==
    kpc = "forces" =>
        \A p \in Particles :
            IsLocal(p) =>
                /\ d_force[p][1] = ForceByFormula(p, {k \in Present : p \in Ends(k)})
                /\ d_force[p][2] = (IF Present = {} THEN 1 ELSE d_lagrange[0][2])
\* a particle that is first member of one constraint and second member of
\* another, both multipliers not 0, its force not 0
C22_Witness ==
    /\ kpc = "forces"
    /\ \E p \in Particles :
          /\ IsLocal(p) /\ d_force[p][1] # Zero
          /\ \E k1 \in Present, k2 \in Present :
                /\ MemberA(k1) = p /\ MemberB(k2) = p
                /\ d_lagrange[Rank(Present, k1)][1] # 0
                /\ d_lagrange[Rank(Present, k2)][1] # 0

\* ------------------------------------------------- NPT integration method
\* TwoStepNPTMTKGPU::integrateStepOne and integrateStepTwo.  The numerics of
\* the barostat, the thermostat and the kernels are not part of the model:
\* the barostat, the thermostat and the box are the number of times each was
\* advanced or set, and every particle array holds, per particle, the number
\* of kernels that had it for writing.
NptParticles == 0..(MaxGroup - 1)
\* the particles d_index_array[0 .. group_size-1] of the group on this rank
GroupMembers(group_size) == 0..(group_size - 1)

NptNow == [barostat |-> npt.barostat, thermostat |-> npt.thermostat,
           box |-> npt.box, pos |-> npt.pos, vel |-> npt.vel,
           angmom |-> npt.angmom]

\* "if (m_group->getNumMembersGlobal() == 0)" of integrateStepOne
GroupEmpty(num_members_global) == num_members_global = 0

\* a kernel over the particles ps has each of them for writing
Touch(arr, ps) == [i \in NptParticles |-> IF i \in ps THEN arr[i] + 1 ELSE arr[i]]

integrateStepOne ==
    /\ npt.method = "npt"
    /\ npt.calls < MaxCalls
    /\ IF GroupEmpty(npt.num_members_global)
       THEN npt' = [npt EXCEPT !.call = "integrateStepOne",
                               !.calls = @ + 1,
                               !.before = NptNow,
                               !.outcome = "error",
                               !.message = "Error during NPT integration."]
       ELSE LET members == GroupMembers(npt.group_size)
                rescaled == IF npt.m_rescale_all
                            THEN Touch(npt.pos, NptParticles) ELSE npt.pos
                stepped == Touch(rescaled, members)
                wrapped == Touch(stepped, NptParticles)
            IN npt' = [npt EXCEPT !.call = "integrateStepOne",
                                  !.calls = @ + 1,
                                  !.before = NptNow,
                                  !.outcome = "ok",
                                  !.message = "none",
                                  !.barostat = @ + 1,
                                  !.box = @ + 1,
                                  !.pos = wrapped,
                                  !.vel = Touch(@, members),
                                  !.angmom = IF npt.m_aniso
                                             THEN Touch(@, members) ELSE @,
                                  !.thermostat = IF npt.m_nph THEN @ ELSE @ + 1]
    /\ UNCHANGED <<migVars, solveVars, thrVars, fillVars, luVars>>

\* integrateStepTwo reads the local group size only
integrateStepTwo ==
    /\ npt.method = "npt"
    /\ npt.calls < MaxCalls
    /\ LET members == GroupMembers(npt.group_size)
       IN npt' = [npt EXCEPT !.call = "integrateStepTwo",
                             !.calls = @ + 1,
                             !.before = NptNow,
                             !.outcome = "ok",
                             !.message = "none",
                             !.vel = Touch(@, members),
                             !.angmom = IF npt.m_aniso
                                        THEN Touch(@, members) ELSE @,
                             !.barostat = @ + 1]
    /\ UNCHANGED <<migVars, solveVars, thrVars, fillVars, luVars>>

InitNPT ==
    /\ MigIdle /\ SolveIdle /\ ThrIdle /\ FillIdle /\ LuIdle
    /\ \E g \in 0..MaxGroup, l \in 0..MaxGroup, ra \in BOOLEAN,
          an \in BOOLEAN, nph \in BOOLEAN :
          /\ l <= g
          /\ npt = [method |-> "npt",
                    num_members_global |-> g, group_size |-> l,
                    m_rescale_all |-> ra, m_aniso |-> an, m_nph |-> nph,
                    calls |-> 0, call |-> "none", outcome |-> "none",
                    message |-> "none",
                    barostat |-> 0, thermostat |-> 0, box |-> 0,
                    pos |-> [i \in NptParticles |-> 0],
                    vel |-> [i \in NptParticles |-> 0],
                    angmom |-> [i \in NptParticles |-> 0],
                    before |-> [barostat |-> 0, thermostat |-> 0, box |-> 0,
                                pos |-> [i \in NptParticles |-> 0],
                                vel |-> [i \in NptParticles |-> 0],
                                angmom |-> [i \in NptParticles |-> 0]]]

NextNPT == integrateStepOne \/ integrateStepTwo
SpecNPT == InitNPT /\ [][NextNPT]_vars

\* a call on an empty group ended in the error and changed nothing
RaisedUntouched == npt.outcome = "error" /\ NptNow = npt.before

\* C23: integrateStepOne on a group of global size 0 raises the error before
\* it advances the barostat, sets the box or writes a particle, and
\* integrateStepTwo on such a group does not proceed either.
C23_EmptyGroupHardError ==
    (/\ npt.method = "npt"
     /\ npt.call \in {"integrateStepOne", "integrateStepTwo"}
     /\ GroupEmpty(npt.num_members_global)) => RaisedUntouched
\* the half of it that is about integrateStepOne
StepOneRaisesFirst ==
    (/\ npt.method = "npt"
     /\ npt.call = "integrateStepOne"
     /\ GroupEmpty(npt.num_members_global)) => RaisedUntouched
StepOneRaisesFirstReached ==
    /\ npt.method = "npt" /\ npt.call = "integrateStepOne"
    /\ GroupEmpty(npt.num_members_global)

\* ===================================== migration: what the kernels leave alone
LocalArrays == <<d_pos, d_vel, d_tag, d_comm_flags>>
PrevLocalArrays == <<prev.d_pos, prev.d_vel, prev.d_tag, prev.d_comm_flags>>

\* C27: remove_particles leaves the source position, velocity, tag and status
\* arrays and the permutation array as they were, and writes the alternate
\* arrays at slots [0,K) only and the outbound buffer at slots [0,N-K) only.
C27_RemoveDoubleBuffered ==
    pc = "removed" =>
        LET K == d_num_select
        IN  /\ LocalArrays = PrevLocalArrays
            /\ d_scan = prev.d_scan
            /\ \A s \in Idx : s >= K =>
                  AltRec(s) = Element(prev.d_pos_alt[s], prev.d_vel_alt[s],
                                      prev.d_tag_alt[s], prev.d_comm_flags_alt[s])
            /\ \A j \in Idx : j >= N - K => d_out[j] = prev.d_out[j]
\* some kept, some removed: slots [0,K) and [0,N-K) were written, the next
\* slot of each still holds what it held, and the sources are intact
C27_Witness ==
    /\ pc = "removed"
    /\ N = MaxN /\ d_num_select = 2
    /\ AltRec(0) # PoisonElement /\ AltRec(1) # PoisonElement
    /\ AltRec(2) = PoisonElement
    /\ d_out[0] # PoisonElement /\ d_out[1] = PoisonElement
    /\ \A i \in 0 .. (N - 1) : d_tag[i] # Poison

C28_WitnessRoom ==
    /\ pc = "added"
    /\ prev.N >= 1 /\ num_add_ptls >= 1
    /\ N < Cap
    /\ LocalRec(N - 1) # PoisonElement
    /\ LocalRec(N) = PrevLocalRec(N)

\* ============================================ migration: a run of appends
\* After the first append the domain goes on receiving, one particle at a
\* time: a particle of another domain, with a tag not seen before and every
\* status bit set, appended with the mask of the removal.
FreshBufferFrom(base, f, m) ==
    [j \in Idx |-> IF j < m
                   THEN Element(PosOf(MaxN + 1 + base + j), VelOf(MaxN + 1 + base + j),
                                MaxN + 1 + base + j, (f + j) % (2^FlagBits))
                   ELSE PoisonElement]

StepReceiveMore ==
    /\ pc = "added"
    /\ N + 1 <= Cap
    /\ num_add_ptls' = 1
    /\ d_in' = FreshBufferFrom(N - d_num_select, 2^FlagBits - 1, 1)
    /\ pc' = "received"
    /\ prev' = Snap
    /\ UNCHANGED <<solveVars, thrVars, fillVars, nptVars, luVars>>
    /\ UNCHANGED <<N, d_pos, d_vel, d_tag, d_comm_flags,
                   d_pos_alt, d_vel_alt, d_tag_alt, d_comm_flags_alt,
                   d_tmp_flag, d_tmp_id, d_scan, d_num_select, d_out,
                   mask, mask_add, n_remove>>

NextAppends ==
    \/ \E m \in FlagVals : StepMark(m, BlockSize)
    \/ StepPartition
    \/ StepRemove
    \/ StepSwap
    \/ StepReceive
    \/ StepAdd(mask)
    \/ StepReceiveMore

SpecAppends == Init /\ [][NextAppends]_vars

\* the tags held at slots 0..n-1 of an array of tags, and whether they differ
TagsOf(tags, n) == {tags[i] : i \in 0 .. (n - 1)}
DistinctTags(tags, n) == Cardinality(TagsOf(tags, n)) = n
OutTags(n) == {d_out[j].tag : j \in 0 .. (n - 1)}
InTags == {d_in[j].tag : j \in 0 .. (num_add_ptls - 1)}
\* the incoming tags differ from one another and from the local ones
IncomingDistinct ==
    /\ Cardinality(InTags) = num_add_ptls
    /\ InTags \cap TagsOf(prev.d_tag, prev.N) = {}
\* appends since the removal: the particles beyond the K kept ones
Appended == N - d_num_select

\* C29: after classify, partition and remove on N particles with distinct
\* tags every original tag is held exactly once by the new local slots [0,K)
\* and the outbound slots [0,N-K) together; every following append of
\* distinct incoming tags leaves every local tag held exactly once.
C29_ParticleConservation ==
    /\ (pc = "removed" /\ DistinctTags(d_tag, N)) =>
          LET K == d_num_select
          IN  /\ TagsOf(d_tag_alt, K) \cup OutTags(N - K) = TagsOf(d_tag, N)
              /\ TagsOf(d_tag_alt, K) \cap OutTags(N - K) = {}
              /\ DistinctTags(d_tag_alt, K)
              /\ Cardinality(OutTags(N - K)) = N - K
    /\ (pc = "added" /\ DistinctTags(prev.d_tag, prev.N) /\ IncomingDistinct) =>
          /\ TagsOf(d_tag, N) = TagsOf(prev.d_tag, prev.N) \cup InTags
          /\ DistinctTags(d_tag, N)
    /\ pc \in {"swapped", "received", "added"} =>
          /\ TagsOf(d_tag, d_num_select) \cup OutTags(n_remove)
                = TagsOf(d_tag_alt, d_num_select + n_remove)
          /\ DistinctTags(d_tag, N)
\* kept and removed particles, then three appends
C29_Witness ==
    /\ pc = "added"
    /\ d_num_select = 2 /\ n_remove = 1
    /\ Appended = 3 /\ num_add_ptls = 1 /\ prev.N = 4
    /\ DistinctTags(d_tag, N)

\* C30: after a remove with mask m no particle of the local slots [0,K) has a
\* bit of m in its status and every outbound element has one; after any
\* number of appends with the same mask, still no local particle has one.
C30_MaskSeparation ==
    /\ pc = "removed" =>
          /\ \A s \in 0 .. (d_num_select - 1) : ~HasMaskBit(d_comm_flags_alt[s], mask)
          /\ \A j \in 0 .. (N - d_num_select - 1) : HasMaskBit(d_out[j].comm_flag, mask)
    /\ pc \in {"swapped", "received"} =>
          \A i \in 0 .. (N - 1) : ~HasMaskBit(d_comm_flags[i], mask)
    /\ (pc = "added" /\ mask_add = mask) =>
          \A i \in 0 .. (N - 1) : ~HasMaskBit(d_comm_flags[i], mask)
\* a second append, of a particle that came with the mask bits set, onto kept
\* particles that have other bits set
C30_Witness ==
    /\ pc = "added" /\ mask_add = mask /\ mask # 0
    /\ d_num_select >= 1 /\ Appended >= 2 /\ num_add_ptls = 1
    /\ HasMaskBit(d_in[0].comm_flag, mask)
    /\ d_comm_flags[0] # 0
    /\ d_comm_flags[N - 1] # d_in[0].comm_flag

\* ================================= constraint kernels: schedules and frames
\* The value of cell (n, m) whatever the order of the threads: the formula
\* when a local member of n has its partner in m (that member's thread
\* stores the cell), 0 otherwise.
StoredBySomeThread(kn, km) ==
    \E i \in LocalEnds(kn) : (Ends(kn) \ {i}) \subseteq Ends(km)
ExpectedCell(kn, km) ==
    IF StoredBySomeThread(kn, km) THEN ElementByFormula(kn, km) ELSE 0
ExpectedMatrix ==
    [c \in MatrixCells |->
        ExpectedCell(ConstraintAt(c % n_constraint), ConstraintAt(c \div n_constraint))]

\* C31: the matrix and the right-hand side left by the fill kernel do not
\* depend on the order in which the particle threads run: threads that store
\* to the same location store the same value, and when the kernel has ended
\* the matrix is the same function of the particle data in every schedule.
C31_ScheduleIndependent ==
    /\ \A c \in MatrixCells : Cardinality(ValuesStored("d_matrix", c)) <= 1
    /\ \A n \in Cons : Cardinality(ValuesStored("d_vec", n)) <= 1
    /\ FillEnded =>
          /\ d_matrix = ExpectedMatrix
          /\ \A n \in Cons :
                d_vec[n] \in (IF ThreadsStoring("d_vec", n) = {} THEN {0}
                              ELSE ValuesStored("d_vec", n))
\* every particle local, three constraints: each diagonal cell was stored by
\* two threads, and the kernel has ended with a matrix that is not diagonal
C31_Witness ==
    /\ FillEnded /\ n_constraint = NPtl /\ sys.nptl_local = NPtl
    /\ \A n \in Cons :
          /\ Cardinality(ThreadsStoring("d_matrix", n * n_constraint + n)) = 2
          /\ d_matrix[n * n_constraint + n] # 0
    /\ \E c \in MatrixCells : c \div n_constraint # c % n_constraint /\ d_matrix[c] # 0

\* what a location may hold once the arrays were cleared: 0, or a value
\* stored by a thread of this launch
FromThisFill(name, c) ==
    IF ThreadsStoring(name, c) = {} THEN {0} ELSE ValuesStored(name, c)
DisjointPairs ==
    {e \in Present \X Present : ~Shares(e[1], e[2])}

DisjointCellsReached ==
    /\ FillEnded /\ DisjointPairs # {}
    /\ \A e \in DisjointPairs : d_matrix[CellOf(e[1], e[2])] = 0
    /\ \E c \in MatrixCells : d_matrix[c] # 0

ForceWrites == {w \in writers : w[1] = "d_force"}
Unwritten == <<<<Poison, Poison>>, 1>>

\* C33: in the force writeback the slot of every local particle is written
\* once, by the thread of that particle and no other, and its old content is
\* replaced, not added to: a local particle with no constraint gets the force
\* 0; no slot of a particle that is not local is written.
C33_ForceSlotsWrittenOnce ==
    /\ \A w \in ForceWrites : w[2] = w[3] /\ IsLocal(w[2])
    /\ \A i \in Particles :
          /\ Cardinality({w \in ForceWrites : w[2] = i}) <= 1
          /\ ~IsLocal(i) => d_force[i] = Unwritten
          /\ (\E w \in ForceWrites : w[2] = i) =>
                /\ d_force[i] \in ValuesStored("d_force", i)
                /\ ConstraintsOf(i) = {} => d_force[i][1] = Zero
    /\ kpc = "forces" =>
          \A i \in Particles :
              IsLocal(i) => Cardinality({w \in ForceWrites : w[2] = i}) = 1
\* the writeback has ended: a local particle with no constraint, a local one
\* with a force, and one that is not local
C33_Witness ==
    /\ kpc = "forces"
    /\ \E i \in Particles : IsLocal(i) /\ ConstraintsOf(i) = {} /\ d_force[i][1] = Zero
    /\ \E i \in Particles : IsLocal(i) /\ d_force[i][1] # Zero
    /\ \E i \in Particles : ~IsLocal(i) /\ d_force[i] = Unwritten

RECURSIVE SumOfForces(_)
SumOfForces(ps) ==
    IF ps = {} THEN Zero
    ELSE LET i == CHOOSE x \in ps : TRUE
         IN VAdd(d_force[i][1], SumOfForces(ps \ {i}))
AllConstraintsLocal == \A k \in Present : LocalEnds(k) = Ends(k)
\* what the threads of the two members of constraint k add for multiplier lam
ContributionOf(k, member, lam) ==
    LET c == TableEntry(member, k)
    IN ForceTerm(c.cpos, lam, Separation(OrderedPair(c.cpos, member, c.other)))

\* C34: for a constraint with both members local, what the two members'
\* threads add to their forces is equal and opposite, for any multiplier; so
\* the constraint forces of a system whose constraints are all local sum to 0.
C34_EqualAndOpposite ==
    /\ kpc # "none" =>
          \A k \in Present : \A lam \in (0 - MaxLambda) .. MaxLambda :
              LocalEnds(k) = Ends(k) =>
                  VAdd(ContributionOf(k, MemberA(k), lam),
                       ContributionOf(k, MemberB(k), lam)) = Zero
    /\ (kpc = "forces" /\ AllConstraintsLocal) =>
          SumOfForces({i \in Particles : IsLocal(i)}) = Zero
\* three local particles, three constraints, forces that are not 0
C34_Witness ==
    /\ kpc = "forces" /\ AllConstraintsLocal
    /\ n_constraint = NPtl
    /\ \A i \in Particles : d_force[i][1] # Zero
    /\ \E n \in Cons, m \in Cons : d_lagrange[n][1] # d_lagrange[m][1]


\* ------------------------------------------- solver: abort, contexts, order
Thrown == call.outcome = "thrown"

LiveAfter(create, destroy) == Took(create) /\ ~Took(destroy)
SpContextsLive ==
    \/ LiveAfter("cusolverSpCreate", "cusolverSpDestroy")
    \/ LiveAfter("cusolverSpCreateCsrluInfoHost",
                 "cusolverSpDestroyCsrluInfoHost")

\* C36: the cusolverSp handle and the LU info object a full factorization
\* creates are released on every exit path of computeConstraintForces, the
\* singular-matrix path included: between calls none of them is live.
C36_SpContextsReleased == ~SpContextsLive
\* a solve that returns has released, in this order, the LU info object and
\* the handle, each after it was created
ReleasedWhenDone ==
    (call.outcome = "done" /\ call.path = "full") =>
        /\ ~SpContextsLive
        /\ PositionOf("cusolverSpCreate")
              < PositionOf("cusolverSpCreateCsrluInfoHost")
        /\ PositionOf("cusolverSpCreateCsrluInfoHost")
              < PositionOf("cusolverSpDestroyCsrluInfoHost")
        /\ PositionOf("cusolverSpDestroyCsrluInfoHost")
              < PositionOf("cusolverSpDestroy")
ReleasedWhenDoneReached == call.outcome = "done" /\ call.path = "full"

\* the parts of the life of the cusolverRf handle
RfCreatedAtMostOnce == call.rf_creates <= 1
RfCreatedWithFlag == Alive => (m_cusolver_rf_initialized <=> call.rf_creates = 1)
\* the calls that are handed the handle
RfCalls == (RfUses \cup Range(RfCreateSteps)) \ {"cusolverRfCreate"}
RfNeverUsedBeforeCreated ==
    \A i \in 1 .. Len(call.trace) :
        call.trace[i] \in RfCalls =>
            /\ call.rf_creates >= 1
            /\ Took("cusolverRfCreate") => PositionOf("cusolverRfCreate") < i
RfDestroyedIffCreated ==
    /\ Alive => ~Took("cusolverRfDestroy")
    /\ ~Alive => Calls(call.trace, "cusolverRfDestroy") = call.rf_creates

\* C37: over the life of the object the cusolverRf handle is created at most
\* once, is never used before it is created, and is destroyed exactly once,
\* by the destructor, if and only if it was created.
C37_RfHandleLifetime ==
    /\ RfCreatedAtMostOnce
    /\ RfNeverUsedBeforeCreated
    /\ RfDestroyedIffCreated
\* what holds of it: created at most once, on a full factorization that got
\* past the zero-pivot check, and destroyed by the destructor exactly when
\* it was created
RfCreatedOnceDestroyedOnce ==
    /\ RfCreatedAtMostOnce
    /\ RfCreatedWithFlag
    /\ RfDestroyedIffCreated
    /\ Took("cusolverRfCreate") =>
          call.path = "full" /\ ~Thrown /\ call.singularity < 0
RfDestroyedReached == ~Alive /\ Took("cusolverRfDestroy")
RfNeverCreatedReached ==
    ~Alive /\ ~Took("cusolverRfDestroy") /\ call.prev_path = "full"

\* the last solve returned
Returned == call.path \in {"full", "fast"} /\ call.outcome = "done"
\* the steps of the dirty branch: taken only once the branch is decided
BranchSteps ==
    Range(FactorSteps) \cup Range(ExtractSteps) \cup Range(RfCreateSteps)
        \cup Range(RfSetupSteps)
\* the four steps that end a solve
ClosingSteps == RfSolveSteps \o WritebackSteps

\* C38: in every solve that returns, the conversion to CSR with its count
\* comparison comes first, before any step of either branch; then, on the
\* full and on the fast path alike, reset-values, refactor, triangular solve
\* and force writeback run once each, in this order, at the end; so the
\* writeback reads the multipliers the triangular solve of this call stored.
C38_FixedStepOrder ==
    Returned =>
        LET n == Len(call.trace)
        IN  /\ call.trace[1] = "gpu_dense2sparse"
            /\ Calls(call.trace, "gpu_dense2sparse") = 1
            /\ call.by_count = call.count_differs
            /\ (call.path = "full") = (call.by_count \/ call.dirty)
            /\ \A i \in 1 .. n :
                  call.trace[i] \in BranchSteps =>
                      1 < i /\ i <= n - 4 /\ call.path = "full"
            /\ n >= 5
            /\ \A k \in 1 .. 4 :
                  /\ call.trace[n - 4 + k] = ClosingSteps[k]
                  /\ Calls(call.trace, ClosingSteps[k]) = 1
            /\ call.m_lagrange.stored /\ call.m_force.stored
            /\ PositionOf("cusolverRfSolve")
                  < PositionOf("gpu_compute_constraint_forces")
\* a solve on each path has returned: the fast one is the last solve
C38_Witness ==
    /\ Returned
    /\ call.path = "fast"
    /\ call.prev_path = "full"
    /\ call.factored

\* ================================================ permutations of the LU
\* After the numeric factorization the solver holds three permutations of
\* the rows 0 .. n_constraint-1: m_Qreorder from the symmetric reordering
\* (cusolverSpXcsrsymrcmHost), m_Plu and m_Qlu from the extraction of the
\* factors (cusolverSpDcsrluExtractHost).  It composes them into m_P and
\* m_Q, which the re-factorization handle is set up with.

Rows(n) == 0 .. (n - 1)
IsBijection(f, n) ==
    /\ DOMAIN f = Rows(n)
    /\ \A i \in Rows(n) : f[i] \in Rows(n)
    /\ \A i, j \in Rows(n) : f[i] = f[j] => i = j
RowPermutations(n) == {f \in [Rows(n) -> Rows(n)] : IsBijection(f, n)}

\* "m_Qreorder[m_Plu[i]]"
Composed_first(outer, inner, i) == outer[inner[0]]
Composed(outer, inner, i) == outer[inner[i]]

\* "for (int i = 0; i < n_constraint; ++i)
\*      { h_P.data[i] = m_Qreorder[m_Plu[i]]; h_Q.data[i] = m_Qreorder[m_Qlu[i]]; }"
ComposePQ ==
    /\ lu.stage = "extracted"
    /\ lu' = [lu EXCEPT
                 !.stage = "composed",
                 !.m_P = [i \in Rows(lu.n_constraint) |->
                             Composed(lu.m_Qreorder, lu.m_Plu, i)],
                 !.m_Q = [i \in Rows(lu.n_constraint) |->
                             Composed(lu.m_Qreorder, lu.m_Qlu, i)]]
    /\ UNCHANGED <<migVars, solveVars, thrVars, fillVars, nptVars>>

\* the state after the extraction, for every matrix size up to MaxPerm and
\* every three permutations the library can return; m_P and m_Q are resized
\* and not yet written
InitLu ==
    /\ MigIdle /\ SolveIdle /\ ThrIdle /\ FillIdle /\ NptIdle
    /\ \E n \in 0 .. MaxPerm :
       \E qreorder \in RowPermutations(n), plu \in RowPermutations(n),
          qlu \in RowPermutations(n) :
          lu = [stage |-> "extracted", n_constraint |-> n,
                m_Qreorder |-> qreorder, m_Plu |-> plu, m_Qlu |-> qlu,
                m_P |-> [i \in Rows(n) |-> Poison],
                m_Q |-> [i \in Rows(n) |-> Poison]]

NextLu == ComposePQ

SpecLu == InitLu /\ [][NextLu]_vars

\* C39: after a full factorization m_P and m_Q, with P[i] = Qreorder[Plu[i]]
\* and Q[i] = Qreorder[Qlu[i]], are each a bijection over 0 .. n_constraint-1
\* whenever m_Qreorder, m_Plu and m_Qlu are.
C39_ComposedBijections ==
    (/\ lu.stage = "composed"
     /\ IsBijection(lu.m_Qreorder, lu.n_constraint)
     /\ IsBijection(lu.m_Plu, lu.n_constraint)
     /\ IsBijection(lu.m_Qlu, lu.n_constraint)) =>
        /\ IsBijection(lu.m_P, lu.n_constraint)
        /\ IsBijection(lu.m_Q, lu.n_constraint)
\* three rows, none of the three permutations the identity, and m_P and m_Q
\* composed to two different permutations
C39_Witness ==
    /\ lu.stage = "composed"
    /\ lu.n_constraint = 3
    /\ \A f \in {lu.m_Qreorder, lu.m_Plu, lu.m_Qlu} : \E i \in Rows(3) : f[i] # i
    /\ lu.m_P # lu.m_Q
    /\ lu.m_P # lu.m_Plu
=============================================================================
